---- MODULE Spec2Model ----
(***************************************************************************)
(* Model of the MemU n8n adapter's resilient client and batch executor:    *)
(*   - batchProcessInputData / processItem (shared/utils.ts) and the       *)
(*     conversion of its outcomes to output items in the Memorize and      *)
(*     Retrieve nodes;                                                     *)
(*   - MemUClient.withRetry / shouldRetry / handleApiError.                *)
(* JavaScript runs each synchronous block to completion: an action is one  *)
(* such block (a call of the processor up to its first await, the          *)
(* continuation of an await, a timer firing).                              *)
(***************************************************************************)
EXTENDS Integers, Sequences, FiniteSets, TLC

\* ------------------------------------------------------------------ bounds
MaxRecords == 3
MaxConcurrencyArg == 2
MaxRetriesArg == 3
MaxTimeoutSeconds == 12
MaxDeleteRecords == 2

\* ------------------------------------------------------- program constants
DefaultMaxConcurrency == 5
NodeMaxConcurrency == 3
DefaultMaxRetries == 3
DefaultBaseDelay == 1000
DefaultMaxDelay == 10000

VARIABLES
    \* --- batchProcessInputData
    inputData,      \* the records handed to the batch, a sequence of [json |-> ...]
    options,        \* [preserveOrder, continueOnError, maxConcurrency] after defaults
    caller,         \* "generic": any processor; "node": the Memorize/Retrieve processor
    bpc,            \* "idle" | "mapping" | "awaiting" | "returned" | "rejected"
    cursor,         \* position (1-based) of the next record the running map() visits
    chunkEnd,       \* last position of the group being mapped / awaited
    proc,           \* per record: the processor call, [st, val, index]
    item,           \* per record: the processItem promise, [st, val]
    results,        \* the chunked branch's accumulating result array
    allRejection,   \* the reason Promise.all of the current group rejected with
    returned,       \* the array the batch resolved with
    rejectedWith,   \* the reason the batch rejected with
    npc,            \* the node's execute(): "running" | "done" | "failed"
    outputData,     \* the node's output items
    \* --- MemUClient.withRetry
    client,         \* "cloud" (retryConfig, handleApiError) | "selfHosted"
    retries,        \* maxRetries after defaults
    delay,          \* baseDelay after defaults
    maxDelay,       \* retryConfig.maxDelay
    rpc,            \* "idle" | "calling" | "sleeping" | "returned" | "thrown"
    attempt,        \* the loop variable
    invocations,    \* how many times operation() has been called
    calls,          \* the errors the operation's invocations failed with, in order
    sleeps,         \* the delays slept so far, in order
    lastError,      \* the variable lastError
    outcome,        \* what withRetry returned or threw
    method,         \* the client method making the call, or "withRetry" called directly
    backoff,        \* calculateBackoffDelay's value for the pause being slept
    \* --- shared/utils.ts: one call of a pure helper
    uargs,          \* the arguments: [error, response, operation, originalData]
    ucall,          \* "none", or the helper that was called
    uresult,        \* how the call completed: [st |-> "returned" | "thrown", val]
    ufirst,         \* the arguments and completion of the first transformMemUResponse call
    \* --- MemUClient.waitForTaskCompletion and the Memorize processor after it
    wpc,            \* "idle" | "polling" | "sleeping" | "returned" | "thrown" | "done"
    now,            \* Date.now() - startTime, in milliseconds
    timeoutMs,      \* the timeout the wait was called with
    observed,       \* the statuses the polls returned, in order
    pollTimes,      \* the elapsed time at which each poll was issued
    wsleeps,        \* the pauses slept between polls, in order
    wresult,        \* what waitForTaskCompletion returned or threw
    mout,           \* the outcome of the Memorize processor for the record
    mopts,          \* the Memorize node's options, NoValue when the wait is called directly
    mresponse,      \* the processor's local `response`
    \* --- the Delete node
    dparams,        \* the node parameters: idSource, confirmation, deletionOptions
    ditems,         \* the input items
    dindex,         \* position (1-based) of the item the loop is at
    dpc,            \* "idle" | "loop" | "awaitDelete" | "awaitBatch" | "done" | "failed"
    dcalls,         \* the deleteItem calls issued so far: [index, id]
    returnData      \* the node's output items

batchVars == <<inputData, options, caller, bpc, cursor, chunkEnd, proc, item,
               results, allRejection, returned, rejectedWith, npc, outputData>>
retryVars == <<client, retries, delay, maxDelay, rpc, attempt, invocations, calls, sleeps,
               lastError, outcome, method, backoff>>
utilVars == <<uargs, ucall, uresult, ufirst>>
pollVars == <<wpc, now, timeoutMs, observed, pollTimes, wsleeps, wresult, mout, mopts, mresponse>>
delVars == <<dparams, ditems, dindex, dpc, dcalls, returnData>>
vars == <<batchVars, retryVars, utilVars, pollVars, delVars>>

\* ------------------------------------------------------------------ values
\* JavaScript values are tagged records, so that any two can be compared.
Undefined == [t |-> "undefined"]
Null == [t |-> "null"]
NoValue == [t |-> "none"]
StrVal(s) == [t |-> "string", s |-> s]
ErrorVal(m) == [t |-> "Error", message |-> m]
ObjVal(x) == [t |-> "object", v |-> x]

\* JavaScript truthiness of the values above (if (x) ...).
Truthy(v) ==
    CASE v.t = "undefined" -> FALSE
      [] v.t = "null" -> FALSE
      [] v.t = "string" -> v.s # ""
      [] OTHER -> TRUE

Min(a, b) == IF a <= b THEN a ELSE b

RECURSIVE Pow2(_)
Pow2(n) == IF n <= 0 THEN 1 ELSE 2 * Pow2(n - 1)

\* ------------------------------------------------------------- API errors
\* What an axios call can throw: an error with a response (status and the
\* body's message), one with a request but no response, or neither.
Statuses == {400, 401, 403, 404, 422, 429, 500, 503, 599, 600}
RespError(status, dataMessage) ==
    [t |-> "AxiosError", response |-> TRUE, status |-> status,
     dataMessage |-> dataMessage, request |-> TRUE, message |-> "Request failed"]
NetworkError ==
    [t |-> "AxiosError", response |-> FALSE, status |-> 0,
     dataMessage |-> "", request |-> TRUE, message |-> "timeout exceeded"]
PlainError ==
    [t |-> "AxiosError", response |-> FALSE, status |-> 0,
     dataMessage |-> "", request |-> FALSE, message |-> ""]
ApiErrors ==
    {RespError(s, "") : s \in Statuses} \cup {RespError(422, "bad field")}
        \cup {NetworkError, PlainError}

\* data?.message || error.message
BodyMessage(error) ==
    IF error.dataMessage # "" THEN error.dataMessage ELSE error.message

\* MemUClient.handleApiError: the Error the client throws for an API error.
handleApiError(error) ==
    IF error.response THEN
        CASE error.status = 401 ->
                ErrorVal("Authentication failed. Please check your API credentials.")
          [] error.status = 403 ->
                ErrorVal("Access denied. Insufficient permissions.")
          [] error.status = 422 ->
                \* JSON.stringify(data?.detail || message)
                ErrorVal("Validation error: " \o "\"" \o BodyMessage(error) \o "\"")
          [] error.status = 429 ->
                ErrorVal("Rate limit exceeded. Please try again later.")
          [] error.status = 404 ->
                ErrorVal("Resource not found.")
          [] error.status = 500 ->
                ErrorVal("MemU service error. Please try again later.")
          [] OTHER ->
                ErrorVal("API Error (" \o ToString(error.status) \o "): "
                            \o BodyMessage(error))
    ELSE IF error.request THEN
        ErrorVal("Network error. Please check your connection.")
    ELSE
        ErrorVal("Unexpected error: " \o error.message)

\* Mutant of shouldRetry: rate-limited requests are retried as well.
shouldRetryRateLimited(error) ==
    (~error.response) \/ (error.status >= 500 /\ error.status < 600)
        \/ error.status = 429

\* MemUClient.shouldRetry (both clients)
shouldRetry(error) ==
    (~error.response) \/ (error.status >= 500 /\ error.status < 600)

\* ------------------------------------------------------- batch: processors
\* The records a batch is called with: up to MaxRecords items with pairwise
\* different json, so that an outcome tells which record it belongs to.
InputItem(i) == [json |-> [id |-> 10 * i]]
InputBatches == {[i \in 1..n |-> InputItem(i)] : n \in 0..MaxRecords}

\* A raw API response is null, undefined or an object whose fields are tagged
\* values; an array field is [t |-> "array", v |-> the elements].
ArrayVal(s) == [t |-> "array", v |-> s]
Nullish(v) == v.t \in {"null", "undefined"}

\* response.k of a non-nullish response: undefined when the field is absent.
Prop(response, k) ==
    IF response.t = "object" /\ k \in DOMAIN response.v THEN response.v[k] ELSE Undefined

\* x?.length || 0
LengthOrZero(v) == IF v.t = "array" THEN Len(v.v) ELSE 0

\* The memu envelope transformMemUResponse builds for each operation kind
\* ({...baseOutput, ...}); the timestamp field is left out of the model.
memuEnvelope(response, operation) ==
    CASE operation = "memorize" ->
            [operation |-> operation, success |-> TRUE,
             resource |-> Prop(response, "resource"),
             resources |-> Prop(response, "resources"),
             items_count |-> LengthOrZero(Prop(response, "items")),
             categories_count |-> LengthOrZero(Prop(response, "categories")),
             items |-> Prop(response, "items"),
             categories |-> Prop(response, "categories"),
             relations |-> Prop(response, "relations")]
      [] operation = "retrieve" ->
            [operation |-> operation, success |-> TRUE,
             needs_retrieval |-> Prop(response, "needs_retrieval"),
             original_query |-> Prop(response, "original_query"),
             rewritten_query |-> Prop(response, "rewritten_query"),
             next_step_query |-> Prop(response, "next_step_query"),
             results_count |->
                 [categories |-> LengthOrZero(Prop(response, "categories")),
                  items |-> LengthOrZero(Prop(response, "items")),
                  resources |-> LengthOrZero(Prop(response, "resources"))],
             categories |-> Prop(response, "categories"),
             items |-> Prop(response, "items"),
             resources |-> Prop(response, "resources")]
      [] operation = "list" ->
            [operation |-> operation, success |-> TRUE,
             total_count |-> Prop(response, "total_count"),
             items |-> Prop(response, "items"),
             categories |-> Prop(response, "categories")]
      [] OTHER ->
            [operation |-> operation, success |-> TRUE, result |-> response]

\* Mutant of transformMemUResponse: the memu envelope first, then originalData
\* spread over it ({memu: ..., ...originalData}).
transformMemUResponseSpreadLast(response, operation, originalData) ==
    [t |-> "object",
     json |-> [k \in (DOMAIN originalData) \cup {"memu"} |->
                 IF k \in DOMAIN originalData THEN originalData[k]
                 ELSE memuEnvelope(response, operation)]]

\* transformMemUResponse(response, operation, originalData) when it returns:
\* originalData spread first, then the memu envelope.
transformMemUResponse(response, operation, originalData) ==
    [t |-> "object",
     json |-> [k \in (DOMAIN originalData) \cup {"memu"} |->
                 IF k = "memu" THEN memuEnvelope(response, operation)
                 ELSE originalData[k]]]

\* The body memUClient.retrieve resolves with in the Retrieve node.
RetrieveResponse ==
    ObjVal([needs_retrieval |-> ObjVal(TRUE), items |-> ArrayVal(<<"m1", "m2">>)])

\* What a processor call can do before its first await: suspend at the await,
\* return, or throw.  A generic processor returns and throws any value; the
\* Memorize/Retrieve processor throws a NodeOperationError on invalid input
\* and otherwise awaits the client.
GenericReturns == {Undefined, Null, ObjVal("r")}
GenericThrows == {ErrorVal(""), StrVal("boom")}
NodeValidationError ==
    ErrorVal("Validation failed: " \o "Query is required for retrieve operation")
NodeApiFailures == {RespError(401, ""), RespError(503, ""), PlainError}
NodeClientErrors == {handleApiError(e) : e \in NodeApiFailures}

\* handleApiError of the self-hosted client.
handleApiErrorSelfHosted(error) ==
    IF error.response THEN
        CASE error.status = 401 ->
                ErrorVal("Authentication failed. Please check your API credentials.")
          [] error.status = 403 ->
                ErrorVal("Access denied. Insufficient permissions.")
          [] error.status = 429 ->
                ErrorVal("Rate limit exceeded. Please try again later.")
          [] error.status = 404 ->
                ErrorVal("Resource not found. Please check the URL or ID.")
          [] error.status = 422 ->
                ErrorVal("Validation error: " \o BodyMessage(error))
          [] error.status = 500 ->
                ErrorVal("MemU service error. Please try again later.")
          [] OTHER ->
                ErrorVal("API Error (" \o ToString(error.status) \o "): "
                            \o BodyMessage(error))
    ELSE IF error.request THEN
        ErrorVal("Network error. Please check your connection and MemU service URL.")
    ELSE
        ErrorVal("Unexpected error: " \o error.message)

\* The Delete node's batch processor.  An option of deletionOptions is
\* Undefined when it was not set.
OptionOn(v) == v # Undefined /\ v.v
DryRun == OptionOn(dparams.deletionOptions.dryRun)

\* What deleteItem resolves with (ItemOperationResponse) or rejects with.
DeleteResponses ==
    {ObjVal([success |-> TRUE]),
     ObjVal([success |-> FALSE, message |-> "Item not found"]),
     ObjVal([success |-> FALSE, message |-> "Item is locked"])}
DeleteClientErrors == {handleApiErrorSelfHosted(RespError(500, ""))}

\* { success: true, dry_run: true, item_id, would_delete: true }
DryRunResult(it) ==
    ObjVal([success |-> TRUE, dry_run |-> TRUE, item_id |-> it.json.id,
            would_delete |-> TRUE])
\* { ...response, item_id }
WithItemId(response, it) ==
    ObjVal([k \in (DOMAIN response.v) \cup {"item_id"} |->
               IF k = "item_id" THEN it.json.id ELSE response.v[k]])

\* Whether the processor reaches an await: the dry run of the Delete node's
\* batch processor returns before its only one.
Awaits(who) == IF who = "delete" THEN ~DryRun ELSE TRUE

SyncReturns(who, it) ==
    CASE who = "generic" -> {ObjVal("r")}
      [] who = "delete" -> IF DryRun THEN {DryRunResult(it)} ELSE {}
      [] OTHER -> {}
SyncThrows(who, it) ==
    CASE who = "generic" -> {StrVal("boom")}
      [] who = "delete" -> {}
      [] OTHER -> {NodeValidationError}
AsyncReturns(who, it) ==
    CASE who = "generic" -> GenericReturns
      [] who = "delete" -> {WithItemId(r, it) : r \in DeleteResponses}
      [] OTHER -> {transformMemUResponse(RetrieveResponse, "retrieve", it.json)}
AsyncThrows(who, it) ==
    CASE who = "generic" -> GenericThrows
      [] who = "delete" -> DeleteClientErrors
      [] OTHER -> NodeClientErrors

\* error instanceof Error ? error.message : String(error)
errorMessage(error) == IF error.t = "Error" THEN error.message ELSE error.s

\* Mutant of processItem: a failure outcome also carries a result key.
processItemBothKeys(it, index, settled, continueOnError) ==
    IF settled.st = "fulfilled" THEN
        [st |-> "fulfilled",
         val |-> [success |-> TRUE, result |-> settled.val,
                  originalData |-> it.json, index |-> index]]
    ELSE IF ~continueOnError THEN
        [st |-> "rejected", val |-> settled.val]
    ELSE
        [st |-> "fulfilled",
         val |-> [success |-> FALSE, result |-> Undefined,
                  error |-> errorMessage(settled.val),
                  originalData |-> it.json, index |-> index]]

\* Mutant of processItem: the catch block rethrows whatever continueOnError says.
processItemRethrows(it, index, settled, continueOnError) ==
    IF settled.st = "fulfilled" THEN
        [st |-> "fulfilled",
         val |-> [success |-> TRUE, result |-> settled.val,
                  originalData |-> it.json, index |-> index]]
    ELSE
        [st |-> "rejected", val |-> settled.val]

\* Mutant of processItem: the catch block throws new Error(errorMessage)
\* instead of the caught value.
processItemWrapsError(it, index, settled, continueOnError) ==
    IF settled.st = "fulfilled" THEN
        [st |-> "fulfilled",
         val |-> [success |-> TRUE, result |-> settled.val,
                  originalData |-> it.json, index |-> index]]
    ELSE IF ~continueOnError THEN
        [st |-> "rejected", val |-> ErrorVal(errorMessage(settled.val))]
    ELSE
        [st |-> "fulfilled",
         val |-> [success |-> FALSE, error |-> errorMessage(settled.val),
                  originalData |-> it.json, index |-> index]]

\* processItem after its await: the outcome it returns, or the rethrow.
\* settled is [st |-> "fulfilled" | "rejected", val |-> value]; the result is
\* the state of processItem's promise.
processItem(it, index, settled, continueOnError) ==
    IF settled.st = "fulfilled" THEN
        [st |-> "fulfilled",
         val |-> [success |-> TRUE, result |-> settled.val,
                  originalData |-> it.json, index |-> index]]
    ELSE IF ~continueOnError THEN
        [st |-> "rejected", val |-> settled.val]
    ELSE
        [st |-> "fulfilled",
         val |-> [success |-> FALSE, error |-> errorMessage(settled.val),
                  originalData |-> it.json, index |-> index]]

\* ------------------------------------------------------- batch: the executor
N == Len(inputData)
Positions == 1..N
IdleProc == [st |-> "idle", val |-> NoValue, index |-> -1]
NoItem == [st |-> "none", val |-> NoValue]

\* maxConcurrency === 1 || preserveOrder
AllAtOnce == options.maxConcurrency = 1 \/ options.preserveOrder

\* Mutant of ItemIndex: the chunked branch passes chunkIndex alone.
ItemIndexChunkLocal(p, first) == p - first

\* The index map() hands to processItem for the record at position p of a
\* group that starts at position first: the map index itself in the
\* all-at-once branch, results.length + chunkIndex in the chunked one.
ItemIndex(p, first) ==
    IF AllAtOnce THEN p - 1 ELSE Len(results) + (p - first)

\* First position of the group being mapped or awaited.
GroupStart == IF AllAtOnce THEN 1 ELSE Len(results) + 1
Group == GroupStart..chunkEnd

\* The options object after destructuring with defaults
\* ({ preserveOrder = true, continueOnError = true, maxConcurrency = 5 }).
\* An option the caller leaves out is passed as Undefined.
WithDefault(v, d) == IF v = Undefined THEN d ELSE v.v
Destructure(o) ==
    [preserveOrder |-> WithDefault(o.preserveOrder, TRUE),
     continueOnError |-> WithDefault(o.continueOnError, TRUE),
     maxConcurrency |-> WithDefault(o.maxConcurrency, DefaultMaxConcurrency)]

\* The options the callers pass.  The nodes pass
\* { continueOnError: advancedOptions.continueOnError || false, maxConcurrency: 3 }.
GenericOptions ==
    [preserveOrder : {Undefined, ObjVal(TRUE), ObjVal(FALSE)},
     continueOnError : {Undefined, ObjVal(TRUE), ObjVal(FALSE)},
     maxConcurrency : {Undefined} \cup {ObjVal(c) : c \in 1..MaxConcurrencyArg}]
NodeOptions ==
    [preserveOrder : {Undefined},
     continueOnError : {ObjVal(TRUE), ObjVal(FALSE)},
     maxConcurrency : {ObjVal(NodeMaxConcurrency)}]

BatchIdle ==
    /\ bpc = "idle"
    /\ cursor = 1
    /\ chunkEnd = 0
    /\ proc = [p \in Positions |-> IdleProc]
    /\ item = [p \in Positions |-> NoItem]
    /\ results = << >>
    /\ allRejection = NoValue
    /\ returned = << >>
    /\ rejectedWith = NoValue
    /\ npc = "running"
    /\ outputData = << >>

BatchInit ==
    /\ inputData \in InputBatches
    /\ caller \in {"generic", "node"}
    /\ options \in {Destructure(o) :
                      o \in IF caller = "generic" THEN GenericOptions ELSE NodeOptions}
    /\ BatchIdle

\* Mutant of ChunkEndFrom: the slice runs to the end of the input.
ChunkEndFromToTheEnd(first) == N

\* End of the chunk that starts at first: inputData.slice(i, i + maxConcurrency).
ChunkEndFrom(first) == Min(first + options.maxConcurrency - 1, N)

\* batchProcessInputData up to its first map(): the branch is chosen and the
\* group to map is the whole input or the first chunk.  With no record there is
\* nothing to map; the await of Promise.all([]) (or the empty loop) follows.
BatchStart ==
    /\ bpc = "idle"
    /\ caller = "delete" => dpc = "awaitBatch"
    /\ chunkEnd' = IF AllAtOnce THEN N ELSE ChunkEndFrom(1)
    /\ bpc' = IF N = 0 THEN "awaiting" ELSE "mapping"
    /\ UNCHANGED <<retryVars, utilVars, pollVars, delVars, inputData, options, caller, cursor, proc, item, results,
                   allRejection, returned, rejectedWith, npc, outputData>>

\* One iteration of map(): processItem(item, index) calls the processor, which
\* runs to its first await.  It suspends there (running), or has already
\* returned or thrown; processItem itself then suspends at its own await.
Dispatch(sync) ==
    /\ bpc = "mapping"
    /\ cursor <= chunkEnd
    /\ proc' = [proc EXCEPT ![cursor] =
                  [st |-> sync.st, val |-> sync.val,
                   index |-> ItemIndex(cursor, GroupStart)]]
    /\ item' = [item EXCEPT ![cursor] = [st |-> "pending", val |-> NoValue]]
    /\ cursor' = cursor + 1
    /\ bpc' = IF cursor = chunkEnd THEN "awaiting" ELSE "mapping"
    /\ UNCHANGED <<retryVars, utilVars, pollVars, delVars, inputData, options, caller, chunkEnd, results, allRejection,
                   returned, rejectedWith, npc, outputData>>

DispatchAwait == Awaits(caller) /\ Dispatch([st |-> "running", val |-> NoValue])
DispatchReturn ==
    /\ cursor <= N
    /\ \E v \in SyncReturns(caller, inputData[cursor]) :
          Dispatch([st |-> "fulfilled", val |-> v])
DispatchThrow ==
    /\ cursor <= N
    /\ \E e \in SyncThrows(caller, inputData[cursor]) :
          Dispatch([st |-> "rejected", val |-> e])

\* Promise.all of the current group adopts the first rejection it sees; a
\* rejection of a record outside the group being awaited has no listener left.
NoteRejection(p, promise) ==
    IF promise.st = "rejected" /\ allRejection = NoValue /\ bpc # "rejected"
    THEN promise.val
    ELSE allRejection

\* The continuation of processItem's await for the record at position p, once
\* the processor's promise has settled as `settled`.
Resume(p, settled) ==
    LET promise == processItem(inputData[p], proc[p].index, settled,
                               options.continueOnError)
    IN  /\ item' = [item EXCEPT ![p] = promise]
        /\ allRejection' = NoteRejection(p, promise)

\* A processor that returned or threw before its first await: processItem's
\* continuation runs once the synchronous map() has finished.
ResumeSync(p) ==
    /\ bpc # "mapping"
    /\ proc[p].st \in {"fulfilled", "rejected"}
    /\ item[p].st = "pending"
    /\ Resume(p, [st |-> proc[p].st, val |-> proc[p].val])
    /\ UNCHANGED <<retryVars, utilVars, pollVars, delVars, inputData, options, caller, bpc, cursor, chunkEnd, proc, results,
                   returned, rejectedWith, npc, outputData>>

\* A suspended processor settles (its request completes or fails), and
\* processItem's continuation runs in the microtasks that follow.
Settle(p, settled) ==
    /\ bpc # "mapping"
    /\ proc[p].st = "running"
    /\ proc' = [proc EXCEPT ![p].st = settled.st, ![p].val = settled.val]
    /\ Resume(p, settled)
    /\ UNCHANGED <<retryVars, utilVars, pollVars, delVars, inputData, options, caller, bpc, cursor, chunkEnd, results,
                   returned, rejectedWith, npc, outputData>>

SettleReturn(p) ==
    \E v \in AsyncReturns(caller, inputData[p]) : Settle(p, [st |-> "fulfilled", val |-> v])
SettleThrow(p) ==
    \E e \in AsyncThrows(caller, inputData[p]) : Settle(p, [st |-> "rejected", val |-> e])

\* Promise.all's value: the outcomes of the group in the order of the group.
chunkResults == [k \in 1..(chunkEnd - GroupStart + 1) |-> item[GroupStart + k - 1].val]

\* Every promise of the awaited group fulfilled: the all-at-once branch returns
\* the array; the chunked branch pushes it and maps the next chunk, or returns
\* results after the last one.
GroupFulfilled ==
    /\ bpc = "awaiting"
    /\ \A p \in Group : item[p].st = "fulfilled"
    /\ IF AllAtOnce
       THEN /\ returned' = chunkResults
            /\ bpc' = "returned"
            /\ UNCHANGED <<results, chunkEnd>>
       ELSE /\ results' = results \o chunkResults
            /\ IF chunkEnd < N
               THEN /\ chunkEnd' = ChunkEndFrom(chunkEnd + 1)
                    /\ bpc' = "mapping"
                    /\ UNCHANGED returned
               ELSE /\ returned' = results'
                    /\ bpc' = "returned"
                    /\ UNCHANGED chunkEnd
    /\ UNCHANGED <<retryVars, utilVars, pollVars, delVars, inputData, options, caller, cursor, proc, item, allRejection,
                   rejectedWith, npc, outputData>>

\* A promise of the awaited group rejected: the await throws and the batch
\* rejects with Promise.all's reason.
GroupRejected ==
    /\ bpc = "awaiting"
    /\ allRejection # NoValue
    /\ bpc' = "rejected"
    /\ rejectedWith' = allRejection
    /\ UNCHANGED <<retryVars, utilVars, pollVars, delVars, inputData, options, caller, cursor, chunkEnd, proc, item, results,
                   allRejection, returned, npc, outputData>>

\* ------------------------------------------------- the nodes' output items
\* createErrorOutput(message, originalData, errorCode); the timestamp field is
\* left out of the model.
createErrorOutput(message, originalData, errorCode) ==
    [t |-> "object",
     json |-> [k \in (DOMAIN originalData) \cup {"error", "error_code", "message"} |->
                 CASE k = "error" -> TRUE
                   [] k = "error_code" -> IF errorCode = "" THEN "UNKNOWN_ERROR" ELSE errorCode
                   [] k = "message" -> message
                   [] OTHER -> originalData[k]]]

\* error.response / error.request of a thrown value: only axios errors carry them.
HasResponse(error) == error.t = "AxiosError" /\ error.response

\* Mutant of HasRequest: every error counts as having sent its request.
HasRequestAlways(error) == TRUE

HasRequest(error) == error.t = "AxiosError" /\ error.request

\* `${error.message}` of a thrown value: a value without the property (a
\* thrown string) is formatted as "undefined".
MessageOf(error) == IF "message" \in DOMAIN error THEN error.message ELSE "undefined"

\* handleMemUError(error, originalData) of shared/utils.ts, for a value that
\* is neither null nor undefined.
handleMemUError(error, originalData) ==
    IF HasResponse(error) THEN
        CASE error.status = 401 ->
                createErrorOutput("Authentication failed. Please check your API credentials.",
                                  originalData, "AUTH_FAILED")
          [] error.status = 403 ->
                createErrorOutput("Access denied. Insufficient permissions.",
                                  originalData, "ACCESS_DENIED")
          [] error.status = 429 ->
                createErrorOutput("Rate limit exceeded. Please try again later.",
                                  originalData, "RATE_LIMITED")
          [] error.status = 404 ->
                createErrorOutput("Resource not found. Please check the URL or ID.",
                                  originalData, "NOT_FOUND")
          [] error.status = 422 ->
                createErrorOutput("Validation error: " \o BodyMessage(error),
                                  originalData, "VALIDATION_ERROR")
          [] error.status = 500 ->
                createErrorOutput("MemU service error. Please try again later.",
                                  originalData, "SERVICE_ERROR")
          [] OTHER ->
                createErrorOutput("API Error (" \o ToString(error.status) \o "): "
                                      \o BodyMessage(error),
                                  originalData, "API_ERROR")
    ELSE IF HasRequest(error) THEN
        createErrorOutput("Network error. Please check your connection and MemU service URL.",
                          originalData, "NETWORK_ERROR")
    ELSE
        createErrorOutput("Unexpected error: " \o MessageOf(error),
                          originalData, "UNEXPECTED_ERROR")

\* Mutant of OutcomeItems: the else-if branch for failed outcomes is missing.
OutcomeItemsSuccessOnly(result) ==
    IF result.success /\ Truthy(result.result) THEN <<result.result>> ELSE << >>

\* The output items one batch outcome contributes in the nodes' loop:
\*   if (result.success && result.result) push(result.result)
\*   else if (result.error) push(handleMemUError(new Error(result.error), originalData))
OutcomeItems(result) ==
    IF result.success /\ Truthy(result.result) THEN <<result.result>>
    ELSE IF "error" \in DOMAIN result /\ result.error # "" THEN
        <<handleMemUError(ErrorVal(result.error), result.originalData)>>
    ELSE << >>

RECURSIVE OutputItems(_)
OutputItems(rs) ==
    IF rs = << >> THEN << >>
    ELSE OutcomeItems(Head(rs)) \o OutputItems(Tail(rs))

\* execute() of the Memorize/Retrieve node after the batch resolved: the loop
\* over the outcomes and the return of [outputData].
NodeConvert ==
    /\ caller = "node"
    /\ npc = "running"
    /\ bpc = "returned"
    /\ outputData' = OutputItems(returned)
    /\ npc' = "done"
    /\ UNCHANGED <<retryVars, utilVars, pollVars, delVars, inputData, options, caller, bpc, cursor, chunkEnd, proc, item,
                   results, allRejection, returned, rejectedWith>>

\* execute() after the batch rejected: the await throws and nothing is returned.
NodeAbort ==
    /\ caller = "node"
    /\ npc = "running"
    /\ bpc = "rejected"
    /\ npc' = "failed"
    /\ UNCHANGED <<retryVars, utilVars, pollVars, delVars, inputData, options, caller, bpc, cursor, chunkEnd, proc, item,
                   results, allRejection, returned, rejectedWith, outputData>>

\* ------------------------------------------------ shared/utils.ts: helpers
\* How a call of a helper completes.
Returned(v) == [st |-> "returned", val |-> v]
Thrown(e) == [st |-> "thrown", val |-> e]

\* The TypeError a property access on null or undefined throws.
TypeErrorVal == [t |-> "TypeError", message |-> "Cannot read properties of null or undefined"]

\* A call handleMemUError(error, originalData): `error.response` is evaluated first.
handleMemUErrorCall(error, originalData) ==
    IF Nullish(error) THEN Thrown(TypeErrorVal)
    ELSE Returned(handleMemUError(error, originalData))

\* A call transformMemUResponse(response, operation, originalData): the
\* memorize, retrieve and list branches read fields of response.
transformMemUResponseCall(response, operation, originalData) ==
    IF Nullish(response) /\ operation \in {"memorize", "retrieve", "list"}
    THEN Thrown(TypeErrorVal)
    ELSE Returned(transformMemUResponse(response, operation, originalData))

\* Mutant of shouldRetryError: the lower bound of the range is exclusive.
shouldRetryErrorAbove500(error) ==
    (~HasResponse(error)) \/ (error.status > 500 /\ error.status < 600)

\* shouldRetryError(error) of shared/utils.ts, for a non-nullish value.
shouldRetryError(error) ==
    (~HasResponse(error)) \/ (error.status >= 500 /\ error.status < 600)

\* A call shouldRetryError(error): `error.response` is evaluated first.
shouldRetryErrorCall(error) ==
    IF Nullish(error) THEN Thrown(TypeErrorVal) ELSE Returned(shouldRetryError(error))

\* Math.random() lies in [0, 1); the draws of the model, in hundredths.
Randoms == {0, 50, 99}

\* Mutant of calculateBackoffDelay: the jitter is added after the cap.
calculateBackoffDelayJitterAfterCap(a, baseDelay, limit, random) ==
    LET exponentialDelay == baseDelay * Pow2(a)
        jitter == (random * exponentialDelay) \div 1000
    IN  Min(exponentialDelay, limit) + jitter

\* calculateBackoffDelay(attempt, baseDelay, maxDelay) with Math.random()
\* returning random / 100: jitter = random * 0.1 * exponentialDelay.
calculateBackoffDelay(a, baseDelay, limit, random) ==
    LET exponentialDelay == baseDelay * Pow2(a)
        jitter == (random * exponentialDelay) \div 1000
    IN  Min(exponentialDelay + jitter, limit)

\* The values a helper is called with.  Server bodies may carry text that
\* holds a credential.
SecretTexts == {"invalid token=abc", "invalid token=xyz"}
HelperErrors ==
    ApiErrors \cup {RespError(st, m) : st \in {422, 503}, m \in SecretTexts}
        \cup {ErrorVal("boom"), StrVal("boom"), Null, Undefined}
HelperResponses ==
    {Null, Undefined, ObjVal([items |-> ArrayVal(<<"m1">>)]), RetrieveResponse}
HelperOperations == {"memorize", "retrieve", "list", "create"}
NoData == [k \in {} |-> Undefined]
\* An input record may itself carry a field named memu (the output of an
\* earlier MemU node in the workflow).
HelperData ==
    {NoData, [id |-> 10],
     [id |-> 10,
      memu |-> [operation |-> "list", success |-> TRUE, total_count |-> Undefined]]}

\* ------------------------------------- Delete node: the confirmation check
\* Values of a field of an input record: booleans, numbers, strings (as the
\* sequence of their characters) and undefined for an absent field.
BoolVal(b) == [t |-> "boolean", b |-> b]
NumVal(n) == [t |-> "number", n |-> n]
TextVal(cs) == [t |-> "text", cs |-> cs]

\* String.prototype.toLowerCase on the letters the model uses.
toLowerCase(cs) ==
    LET lower(c) ==
            CASE c = "D" -> "d" [] c = "E" -> "e" [] c = "L" -> "l" [] c = "T" -> "t"
              [] c = "Y" -> "y" [] c = "S" -> "s" [] c = "R" -> "r" [] c = "U" -> "u"
              [] c = "N" -> "n" [] c = "O" -> "o"
              [] OTHER -> c
    IN  [i \in 1..Len(cs) |-> lower(cs[i])]

\* String.prototype.trim: white space removed from both ends.
RECURSIVE trimStart(_)
trimStart(cs) ==
    IF cs # << >> /\ Head(cs) \in {" ", "\t", "\n"} THEN trimStart(Tail(cs)) ELSE cs
RECURSIVE trimEnd(_)
trimEnd(cs) ==
    IF cs # << >> /\ cs[Len(cs)] \in {" ", "\t", "\n"}
    THEN trimEnd(SubSeq(cs, 1, Len(cs) - 1))
    ELSE cs
trim(cs) == trimEnd(trimStart(cs))

\* Mutant of Normalized: the field's string is lower-cased but not trimmed.
NormalizedUntrimmed(cs) == toLowerCase(cs)

\* confirmValue.toLowerCase().trim()
Normalized(cs) == trim(toLowerCase(cs))

\* inputItem.json[field] and confirmation.<option>: undefined when absent.
JsonField(json, field) == IF field \in DOMAIN json THEN json[field] ELSE Undefined

\* confirmation.requireConfirmation as a condition.
RequireConfirmation(confirmation) ==
    "requireConfirmation" \in DOMAIN confirmation /\ confirmation.requireConfirmation

\* checkDeletionConfirmation(executeFunctions, inputItem, confirmation,
\* itemIndex), with idSource the node parameter it reads.
checkDeletionConfirmation(idSource, inputItem, confirmation) ==
    IF ~RequireConfirmation(confirmation) THEN TRUE
    ELSE IF idSource = "manual" THEN
        /\ "confirmationValue" \in DOMAIN confirmation
        /\ confirmation.confirmationValue # << >>
        /\ toLowerCase(confirmation.confirmationValue) = <<"d", "e", "l", "e", "t", "e">>
    ELSE
        LET confirmationField ==
                IF "confirmationField" \in DOMAIN confirmation
                       /\ confirmation.confirmationField # ""
                THEN confirmation.confirmationField
                ELSE "confirm_delete"
            confirmValue == JsonField(inputItem.json, confirmationField)
        IN  IF confirmValue.t = "boolean" THEN confirmValue.b
            ELSE IF confirmValue.t = "text" THEN
                Normalized(confirmValue.cs) \in
                    {<<"t", "r", "u", "e">>, <<"y", "e", "s">>,
                     <<"d", "e", "l", "e", "t", "e">>}
            ELSE FALSE

\* The strings and field values the check is called with.
ConfirmTexts ==
    {<<"d", "e", "l", "e", "t", "e">>, <<"D", "E", "L", "E", "T", "E">>,
     <<"D", "e", "l", "e", "t", "e">>, <<" ", "d", "e", "l", "e", "t", "e">>,
     <<"y", "e", "s">>, <<"Y", "E", "S">>, <<" ", "y", "e", "s", " ">>,
     <<"y", " ", "e", "s">>, <<"t", "r", "u", "e">>, <<"T", "r", "u", "e", "\n">>,
     <<"n", "o">>, <<"y">>, <<"1">>, << >>}
ConfirmJsons ==
    {[id |-> TextVal(<<"a">>)]}
        \cup {[id |-> TextVal(<<"a">>), confirm_delete |-> v] :
                 v \in {Null, BoolVal(TRUE), BoolVal(FALSE), NumVal(1), NumVal(0)}
                           \cup {TextVal(cs) : cs \in ConfirmTexts}}
        \cup {[id |-> TextVal(<<"a">>), confirm_delete |-> BoolVal(FALSE), approved |-> v] :
                 v \in {BoolVal(TRUE), TextVal(<<"Y", "E", "S">>), TextVal(<<"n", "o">>)}}
ConfirmationParams ==
    {[k \in {} |-> TRUE], [requireConfirmation |-> FALSE], [requireConfirmation |-> TRUE],
     [requireConfirmation |-> TRUE, confirmationField |-> "approved"],
     [requireConfirmation |-> TRUE, confirmationField |-> ""]}
        \cup {[requireConfirmation |-> TRUE, confirmationValue |-> cs] : cs \in ConfirmTexts}
ConfirmationArgs ==
    {[error |-> Undefined, response |-> Undefined,
      operation |-> "checkDeletionConfirmation", originalData |-> j,
      confirmation |-> c, idSource |-> src] :
        j \in ConfirmJsons, c \in ConfirmationParams, src \in {"manual", "field", "batch"}}

HelperArgs ==
    {[error |-> e, response |-> Undefined, operation |-> "", originalData |-> d] :
        e \in HelperErrors, d \in HelperData}
    \cup
    {[error |-> Undefined, response |-> r, operation |-> o, originalData |-> d] :
        r \in HelperResponses, o \in HelperOperations, d \in HelperData}

UtilIdle ==
    /\ uargs = [error |-> Undefined, response |-> Undefined, operation |-> "",
                originalData |-> NoData]
    /\ ucall = "none"
    /\ uresult = NoValue
    /\ ufirst = NoValue

UtilInit ==
    /\ uargs \in HelperArgs \cup ConfirmationArgs
    /\ ucall = "none"
    /\ uresult = NoValue
    /\ ufirst = NoValue

\* One call of a helper with the drawn arguments.
CallHelper(name, completion) ==
    /\ ucall = "none"
    /\ ucall' = name
    /\ uresult' = completion
    /\ UNCHANGED <<batchVars, retryVars, pollVars, delVars, uargs, ufirst>>

CallHandleMemUError ==
    /\ uargs.operation = ""
    /\ CallHelper("handleMemUError", handleMemUErrorCall(uargs.error, uargs.originalData))

CallShouldRetryError ==
    /\ uargs.operation = ""
    /\ CallHelper("shouldRetryError", shouldRetryErrorCall(uargs.error))

\* The clients' private shouldRetry and the cloud client's handleApiError
\* receive what axios rejected with.
CallShouldRetry ==
    /\ uargs.operation = ""
    /\ uargs.error.t = "AxiosError"
    /\ CallHelper("shouldRetry", Returned(shouldRetry(uargs.error)))

CallHandleApiError ==
    /\ uargs.operation = ""
    /\ uargs.error.t = "AxiosError"
    /\ CallHelper("handleApiError", Returned(handleApiError(uargs.error)))

\* Mutant of transformMemUResponseLeaves: the envelope is assigned into the
\* caller's record (Object.assign(originalData, {memu: ...})).
transformMemUResponseAssigns(args) ==
    IF transformMemUResponseCall(args.response, args.operation, args.originalData).st
           = "thrown"
    THEN args
    ELSE [args EXCEPT !.originalData =
              transformMemUResponse(args.response, args.operation,
                                    args.originalData).json]

\* The caller's argument objects after a call of transformMemUResponse: the
\* function reads response and spreads originalData into a new object; it
\* assigns to no property of either.
transformMemUResponseLeaves(args) == args

CallCheckDeletionConfirmation ==
    /\ uargs.operation = "checkDeletionConfirmation"
    /\ CallHelper("checkDeletionConfirmation",
                  Returned(checkDeletionConfirmation(uargs.idSource,
                                                     [json |-> uargs.originalData],
                                                     uargs.confirmation)))

CallTransformMemUResponse ==
    /\ uargs.operation \in HelperOperations
    /\ ucall = "none"
    /\ ucall' = "transformMemUResponse"
    /\ uresult' = transformMemUResponseCall(uargs.response, uargs.operation,
                                            uargs.originalData)
    /\ uargs' = transformMemUResponseLeaves(uargs)
    /\ ufirst' = [args |-> uargs, result |-> uresult']
    /\ UNCHANGED <<batchVars, retryVars, pollVars, delVars>>

\* A second call with the same argument objects.
CallTransformMemUResponseAgain ==
    /\ ucall = "transformMemUResponse"
    /\ ucall' = "transformMemUResponse again"
    /\ uresult' = transformMemUResponseCall(uargs.response, uargs.operation,
                                            uargs.originalData)
    /\ uargs' = transformMemUResponseLeaves(uargs)
    /\ UNCHANGED <<batchVars, retryVars, pollVars, delVars, ufirst>>

\* ------------------------------------------------- the clients' operations
\* The methods of the cloud client (MemUUpdateItem.node.ts) and of the
\* self-hosted client (shared/MemUClient.ts) that issue a remote call.
CloudMethods == {"memorize", "getTaskStatus", "retrieve", "listCategories", "testConnection"}
SelfHostedMethods ==
    {"memorize", "retrieve", "listItems", "createItem", "updateItem", "deleteItem"}
Methods(c) == IF c = "cloud" THEN CloudMethods ELSE SelfHostedMethods

\* Whether the method makes its call inside this.withRetry(...): the cloud
\* client's methods but testConnection do; the self-hosted client's methods
\* use try/catch around the call.
Wrapped(c, m) == m = "withRetry" \/ (c = "cloud" /\ m # "testConnection")

\* --------------------------------------------------------- MemUClient.withRetry
RetryIdle ==
    /\ client = "cloud"
    /\ retries = 0
    /\ delay = 0
    /\ maxDelay = 0
    /\ rpc = "idle"
    /\ attempt = 0
    /\ invocations = 0
    /\ calls = << >>
    /\ sleeps = << >>
    /\ lastError = Undefined
    /\ outcome = NoValue
    /\ method = "withRetry"
    /\ backoff = NoValue

\* The arguments of one invocation: maxRetries and baseDelay may be left out,
\* and the cloud client's retryConfig.maxDelay may be configured.
MaxRetriesArgs == {Undefined} \cup {ObjVal(r) : r \in 0..MaxRetriesArg}
BaseDelayArgs == {Undefined, ObjVal(3000)}
MaxDelayArgs == {Undefined, ObjVal(5000)}

\* withRetry's locals after the defaults (maxRetries ?? 3, baseDelay ?? 1000,
\* maxDelay ?? 10000); the self-hosted client has no maxDelay.
RetryInit ==
    /\ client \in {"cloud", "selfHosted"}
    /\ \E a \in MaxRetriesArgs : retries = WithDefault(a, DefaultMaxRetries)
    /\ \E a \in BaseDelayArgs : delay = WithDefault(a, DefaultBaseDelay)
    /\ \E a \in (IF client = "cloud" THEN MaxDelayArgs ELSE {Undefined}) :
          maxDelay = WithDefault(a, DefaultMaxDelay)
    /\ rpc = "idle"
    /\ attempt = 0
    /\ invocations = 0
    /\ calls = << >>
    /\ sleeps = << >>
    /\ lastError = Undefined
    /\ outcome = NoValue
    /\ method = "withRetry"
    /\ backoff = NoValue

\* for (...; attempt <= retries; ...)
LoopContinues(a, r) == a <= r

\* Mutant of LastAttempt: the last-attempt test is off by one.
LastAttemptOffByOne(a, r) == a = r + 1

\* if (attempt === retries) throw
LastAttempt(a, r) == a = r

\* The pause before the retry that follows zero-based attempt a: capped at
\* maxDelay in the cloud client, uncapped in the self-hosted one.
backoffDelay(a) ==
    IF client = "cloud" THEN Min(delay * Pow2(a), maxDelay) ELSE delay * Pow2(a)

\* What withRetry throws for a caught error: the cloud client classifies it
\* with handleApiError, the self-hosted one rethrows it as it is.
Raise(error) == IF client = "cloud" THEN handleApiError(error) ELSE error

\* this.retryConfig.retryCondition(error) / this.shouldRetry(error)
retryCondition(error) == shouldRetry(error)

\* The loop's entry: the first iteration invokes the operation (retries >= 0).
RetryStart ==
    /\ rpc = "idle"
    /\ Wrapped(client, method)
    /\ rpc' = "calling"
    /\ invocations' = invocations + 1
    /\ UNCHANGED <<batchVars, utilVars, pollVars, delVars, client, retries, delay, maxDelay, attempt, calls, sleeps,
                   lastError, outcome, method, backoff>>

\* The awaited operation resolves: withRetry returns its value.
CallSucceeds ==
    /\ rpc = "calling"
    /\ rpc' = "returned"
    /\ outcome' = StrVal("data")
    /\ UNCHANGED <<batchVars, utilVars, pollVars, delVars, client, retries, delay, maxDelay, attempt, invocations,
                   calls, sleeps, lastError, method, backoff>>

\* The awaited operation rejects with error: the catch block throws on the
\* last attempt, starts the backoff sleep when the error is retryable, and
\* throws otherwise.
CallFails ==
    \E error \in ApiErrors :
        /\ rpc = "calling"
        /\ calls' = Append(calls, error)
        /\ lastError' = error
        /\ IF LastAttempt(attempt, retries) THEN
               /\ rpc' = "thrown"
               /\ outcome' = Raise(error)
               /\ UNCHANGED sleeps
           ELSE IF retryCondition(error) THEN
               /\ rpc' = "sleeping"
               /\ sleeps' = Append(sleeps, backoffDelay(attempt))
               /\ UNCHANGED outcome
           ELSE
               /\ rpc' = "thrown"
               /\ outcome' = Raise(error)
               /\ UNCHANGED sleeps
        /\ UNCHANGED <<batchVars, utilVars, pollVars, delVars, client, retries, delay, maxDelay, attempt, invocations,
                       method, backoff>>

\* The sleep's timer fires: attempt++ and, while the loop continues, the
\* operation is invoked again; after the loop, throw lastError.
Wake ==
    /\ rpc = "sleeping"
    /\ attempt' = attempt + 1
    /\ IF LoopContinues(attempt + 1, retries) THEN
           /\ rpc' = "calling"
           /\ invocations' = invocations + 1
           /\ UNCHANGED outcome
       ELSE
           /\ rpc' = "thrown"
           /\ outcome' = Raise(lastError)
           /\ UNCHANGED invocations
    /\ backoff' = NoValue
    /\ UNCHANGED <<batchVars, utilVars, pollVars, delVars, client, retries, delay, maxDelay, calls, sleeps, lastError,
                   method>>

\* calculateBackoffDelay(attempt, baseDelay, maxDelay) evaluated for the pause
\* withRetry is sleeping, with one draw of Math.random().
CalculateBackoff ==
    /\ rpc = "sleeping"
    /\ backoff = NoValue
    /\ \E random \in Randoms :
          backoff' = ObjVal(calculateBackoffDelay(attempt, delay, maxDelay, random))
    /\ UNCHANGED <<batchVars, utilVars, pollVars, delVars, client, retries, delay, maxDelay, rpc, attempt,
                   invocations, calls, sleeps, lastError, outcome, method>>

\* A method that does not go through withRetry issues its request:
\* try { await this.httpClient... }.
DirectCall ==
    /\ rpc = "idle"
    /\ ~Wrapped(client, method)
    /\ rpc' = "direct"
    /\ invocations' = invocations + 1
    /\ UNCHANGED <<batchVars, utilVars, pollVars, delVars, client, retries, delay, maxDelay, attempt, calls, sleeps,
                   lastError, outcome, method, backoff>>

\* The request resolves: the method returns response.data (testConnection: true).
DirectSucceeds ==
    /\ rpc = "direct"
    /\ rpc' = "returned"
    /\ outcome' = IF method = "testConnection" THEN ObjVal(TRUE) ELSE StrVal("data")
    /\ UNCHANGED <<batchVars, utilVars, pollVars, delVars, client, retries, delay, maxDelay, attempt, invocations,
                   calls, sleeps, lastError, method, backoff>>

\* The request rejects: the catch block throws handleApiError(error) at once
\* (testConnection: returns false).
DirectFails ==
    \E error \in ApiErrors :
        /\ rpc = "direct"
        /\ calls' = Append(calls, error)
        /\ IF method = "testConnection"
           THEN rpc' = "returned" /\ outcome' = ObjVal(FALSE)
           ELSE rpc' = "thrown" /\ outcome' = handleApiErrorSelfHosted(error)
        /\ UNCHANGED <<batchVars, utilVars, pollVars, delVars, client, retries, delay, maxDelay, attempt,
                       invocations, sleeps, lastError, method, backoff>>

\* A call of a client method: the cloud client's retryConfig comes from the
\* constructor's config (maxRetries ?? 3, baseDelay ?? 1000, maxDelay ?? 10000)
\* and its methods call withRetry(operation) with no further argument.
GatewayInit ==
    /\ client \in {"cloud", "selfHosted"}
    /\ method \in Methods(client)
    /\ \E a \in (IF client = "cloud" THEN MaxRetriesArgs ELSE {Undefined}) :
          retries = WithDefault(a, DefaultMaxRetries)
    /\ delay = DefaultBaseDelay
    /\ maxDelay = DefaultMaxDelay
    /\ rpc = "idle"
    /\ attempt = 0
    /\ invocations = 0
    /\ calls = << >>
    /\ sleeps = << >>
    /\ lastError = Undefined
    /\ outcome = NoValue
    /\ backoff = NoValue

\* ------------------------------------------------------------ specification
PollIdle ==
    /\ wpc = "idle"
    /\ now = 0
    /\ timeoutMs = 0
    /\ observed = << >>
    /\ pollTimes = << >>
    /\ wsleeps = << >>
    /\ wresult = NoValue
    /\ mout = NoValue
    /\ mopts = NoValue
    /\ mresponse = NoValue

DeleteIdle ==
    /\ dparams = NoValue
    /\ ditems = << >>
    /\ dindex = 0
    /\ dpc = "idle"
    /\ dcalls = << >>
    /\ returnData = << >>

Init == BatchInit /\ RetryIdle /\ UtilIdle /\ PollIdle /\ DeleteIdle

Next ==
    \/ BatchStart
    \/ DispatchAwait
    \/ DispatchReturn
    \/ DispatchThrow
    \/ \E p \in Positions : ResumeSync(p)
    \/ \E p \in Positions : SettleReturn(p)
    \/ \E p \in Positions : SettleThrow(p)
    \/ GroupFulfilled
    \/ GroupRejected
    \/ NodeConvert
    \/ NodeAbort

Spec == Init /\ [][Next]_vars

\* One invocation of withRetry, the batch left idle.
RetryBatchIdle ==
    /\ inputData = << >>
    /\ caller = "generic"
    /\ options = Destructure([preserveOrder |-> Undefined, continueOnError |-> Undefined,
                              maxConcurrency |-> Undefined])
    /\ BatchIdle

InitRetry == RetryBatchIdle /\ RetryInit /\ UtilIdle /\ PollIdle /\ DeleteIdle

NextRetry ==
    \/ RetryStart
    \/ CallSucceeds
    \/ CallFails
    \/ CalculateBackoff
    \/ Wake

SpecRetry == InitRetry /\ [][NextRetry]_vars

\* One call of a client method.
InitGateway == RetryBatchIdle /\ GatewayInit /\ UtilIdle /\ PollIdle /\ DeleteIdle

NextGateway ==
    \/ RetryStart
    \/ CallSucceeds
    \/ CallFails
    \/ Wake
    \/ DirectCall
    \/ DirectSucceeds
    \/ DirectFails

SpecGateway == InitGateway /\ [][NextGateway]_vars

\* One call of a helper of shared/utils.ts or of a client's private helper.
InitUtil == RetryBatchIdle /\ RetryIdle /\ UtilInit /\ PollIdle /\ DeleteIdle

NextUtil ==
    \/ CallHandleMemUError
    \/ CallShouldRetryError
    \/ CallShouldRetry
    \/ CallHandleApiError
    \/ CallTransformMemUResponse
    \/ CallTransformMemUResponseAgain
    \/ CallCheckDeletionConfirmation

SpecUtil == InitUtil /\ [][NextUtil]_vars

\* ------------------------------------- waitForTaskCompletion and Memorize
\* Times are in milliseconds since startTime.
PollInterval == 5000
\* How long a getTaskStatus call takes, and how late a timer fires.
PollDurations == {0, 2000}
TimerLateness == {0, 1000}

TaskStatuses == {"PENDING", "PROCESSING", "SUCCESS", "FAILED"}
TaskStatusResponse(st) == ObjVal([task_id |-> StrVal("t1"), status |-> StrVal(st)])

\* What memorize resolves with: the accepted task, or a body without task_id.
MemorizeResponses ==
    {ObjVal([task_id |-> StrVal("t1"), status |-> StrVal("PENDING")]),
     ObjVal([status |-> StrVal("PENDING")])}

\* additionalOptions.waitForCompletion, additionalOptions.timeout (seconds)
\* and advancedOptions.continueOnError of the Memorize node.
MemorizeOptions ==
    [waitForCompletion : BOOLEAN, timeout : {5, MaxTimeoutSeconds},
     continueOnError : BOOLEAN]

\* (additionalOptions.timeout || 120) * 1000
NodeTimeoutMs(o) == (IF o.timeout = 0 THEN 120 ELSE o.timeout) * 1000

\* Mutant of Terminal: only SUCCESS ends the wait.
TerminalSuccessOnly(st) == st = "SUCCESS"

\* status.status === 'SUCCESS' || status.status === 'FAILED'
Terminal(st) == st = "SUCCESS" \/ st = "FAILED"

\* Mutant of StillWaiting: the limit itself still polls.
StillWaitingInclusive(elapsed, limit) == elapsed <= limit

\* Date.now() - startTime < timeoutMs
StillWaiting(elapsed, limit) == elapsed < limit

TimeoutError == ErrorVal("Task t1 did not complete within the timeout")

\* { ...response, ...taskStatus }
Spread(a, b) ==
    ObjVal([k \in (DOMAIN a.v) \cup (DOMAIN b.v) |->
               IF k \in DOMAIN b.v THEN b.v[k] ELSE a.v[k]])

PollInit ==
    /\ now = 0
    /\ observed = << >>
    /\ pollTimes = << >>
    /\ wsleeps = << >>
    /\ wresult = NoValue
    /\ mout = NoValue
    /\ \/ /\ mopts = NoValue
          /\ mresponse = NoValue
          /\ wpc = "check"
          /\ timeoutMs \in {0, 5000, MaxTimeoutSeconds * 1000}
       \/ /\ mopts \in MemorizeOptions
          /\ mresponse \in MemorizeResponses
          /\ wpc = "memorized"
          /\ timeoutMs = 0

\* The Memorize processor after memorize resolved, when the wait is off or
\* the response has no task_id: the response is transformed as it is.
MemorizeWithoutWait ==
    /\ wpc = "memorized"
    /\ ~(mopts.waitForCompletion /\ Truthy(Prop(mresponse, "task_id")))
    /\ mout' = processItem(InputItem(1), 0,
                           [st |-> "fulfilled",
                            val |-> transformMemUResponse(mresponse, "memorize",
                                                          InputItem(1).json)],
                           mopts.continueOnError)
    /\ wpc' = "done"
    /\ UNCHANGED <<batchVars, retryVars, utilVars, delVars, now, timeoutMs, observed,
                   pollTimes, wsleeps, wresult, mopts, mresponse>>

\* The processor calls waitForTaskCompletion(response.task_id, timeoutMs).
MemorizeCallsWait ==
    /\ wpc = "memorized"
    /\ mopts.waitForCompletion /\ Truthy(Prop(mresponse, "task_id"))
    /\ timeoutMs' = NodeTimeoutMs(mopts)
    /\ wpc' = "check"
    /\ UNCHANGED <<batchVars, retryVars, utilVars, delVars, now, observed, pollTimes,
                   wsleeps, wresult, mout, mopts, mresponse>>

\* The loop condition holds: getTaskStatus is called.
IssuePoll ==
    /\ wpc = "check"
    /\ StillWaiting(now, timeoutMs)
    /\ pollTimes' = Append(pollTimes, now)
    /\ wpc' = "polling"
    /\ UNCHANGED <<batchVars, retryVars, utilVars, delVars, now, timeoutMs, observed,
                   wsleeps, wresult, mout, mopts, mresponse>>

\* The loop condition fails: the timeout error is thrown.
RaiseTimeout ==
    /\ wpc = "check"
    /\ ~StillWaiting(now, timeoutMs)
    /\ wresult' = TimeoutError
    /\ wpc' = "thrown"
    /\ UNCHANGED <<batchVars, retryVars, utilVars, delVars, now, timeoutMs, observed,
                   pollTimes, wsleeps, mout, mopts, mresponse>>

\* getTaskStatus resolves: a terminal status is returned, any other status
\* is followed by sleep(pollInterval).
PollReturns ==
    /\ wpc = "polling"
    /\ \E st \in TaskStatuses, d \in PollDurations :
          /\ now' = now + d
          /\ observed' = Append(observed, st)
          /\ IF Terminal(st)
             THEN wresult' = TaskStatusResponse(st) /\ wpc' = "returned"
             ELSE wpc' = "sleeping" /\ UNCHANGED wresult
    /\ UNCHANGED <<batchVars, retryVars, utilVars, delVars, timeoutMs, pollTimes, wsleeps,
                   mout, mopts, mresponse>>

\* getTaskStatus rejects (withRetry gave up): the wait rejects with its error.
PollFails ==
    /\ wpc = "polling"
    /\ \E e \in NodeClientErrors, d \in PollDurations :
          /\ now' = now + d
          /\ wresult' = e
    /\ wpc' = "thrown"
    /\ UNCHANGED <<batchVars, retryVars, utilVars, delVars, timeoutMs, observed, pollTimes,
                   wsleeps, mout, mopts, mresponse>>

\* The timer of sleep(pollInterval) fires and the loop condition is next.
PollWake ==
    /\ wpc = "sleeping"
    /\ \E late \in TimerLateness : now' = now + PollInterval + late
    /\ wsleeps' = Append(wsleeps, PollInterval)
    /\ wpc' = "check"
    /\ UNCHANGED <<batchVars, retryVars, utilVars, delVars, timeoutMs, observed, pollTimes,
                   wresult, mout, mopts, mresponse>>

\* The wait returned to the processor: response = {...response, ...taskStatus}
\* and transformMemUResponse(response, 'memorize', item.json) is returned.
MemorizeAfterWait ==
    /\ wpc = "returned"
    /\ mopts # NoValue
    /\ mresponse' = Spread(mresponse, wresult)
    /\ mout' = processItem(InputItem(1), 0,
                           [st |-> "fulfilled",
                            val |-> transformMemUResponse(mresponse', "memorize",
                                                          InputItem(1).json)],
                           mopts.continueOnError)
    /\ wpc' = "done"
    /\ UNCHANGED <<batchVars, retryVars, utilVars, delVars, now, timeoutMs, observed,
                   pollTimes, wsleeps, wresult, mopts>>

\* The wait threw into the processor, which rejects with the same error.
MemorizeWaitThrew ==
    /\ wpc = "thrown"
    /\ mopts # NoValue
    /\ mout' = processItem(InputItem(1), 0, [st |-> "rejected", val |-> wresult],
                           mopts.continueOnError)
    /\ wpc' = "done"
    /\ UNCHANGED <<batchVars, retryVars, utilVars, delVars, now, timeoutMs, observed,
                   pollTimes, wsleeps, wresult, mopts, mresponse>>

InitPoll == RetryBatchIdle /\ RetryIdle /\ UtilIdle /\ PollInit /\ DeleteIdle

NextPoll ==
    \/ MemorizeWithoutWait
    \/ MemorizeCallsWait
    \/ IssuePoll
    \/ RaiseTimeout
    \/ PollReturns
    \/ PollFails
    \/ PollWake
    \/ MemorizeAfterWait
    \/ MemorizeWaitThrew

\* Every continuation is run by the event loop: a request settles (axios
\* times it out otherwise) and a timer fires.
SpecPoll == InitPoll /\ [][NextPoll]_vars /\ WF_vars(NextPoll)

\* ------------------------------------------------------- the Delete node
\* The input records: with an id, with an array of ids, with or without a
\* value in the confirmation field.
DeleteJsons ==
    {[id |-> TextVal(<<"a">>)],
     [id |-> TextVal(<<"a">>), confirm_delete |-> BoolVal(TRUE)],
     [id |-> TextVal(<<"a">>), confirm_delete |-> TextVal(<<"n", "o">>)],
     [ids |-> ArrayVal(<<TextVal(<<"a">>), TextVal(<<"b", " ">>)>>), confirm_delete |-> TextVal(<<" ", "Y", "e", "s">>)],
     [confirm_delete |-> BoolVal(TRUE)]}

\* getNodeParameter('confirmation', 0, {}): the options the user added.
DeleteConfirmations ==
    {[k \in {} |-> TRUE], [requireConfirmation |-> TRUE], [requireConfirmation |-> FALSE],
     [requireConfirmation |-> TRUE,
      confirmationValue |-> <<"D", "E", "L", "E", "T", "E">>]}
\* getNodeParameter('deletionOptions', 0, {}).
DeletionOptions ==
    {[dryRun |-> Undefined, continueOnError |-> c, failOnNotFound |-> Undefined] :
        c \in {Undefined, ObjVal(TRUE), ObjVal(FALSE)}}
    \cup
    {[dryRun |-> ObjVal(TRUE), continueOnError |-> c, failOnNotFound |-> Undefined] :
        c \in {Undefined, ObjVal(TRUE)}}
    \cup
    {[dryRun |-> Undefined, continueOnError |-> ObjVal(TRUE),
      failOnNotFound |-> ObjVal(TRUE)]}

DeleteInit ==
    /\ dparams \in [idSource : {"manual", "field", "batch"},
                     confirmation : DeleteConfirmations,
                     deletionOptions : DeletionOptions]
    /\ ditems \in UNION {[1..n -> {[json |-> j] : j \in DeleteJsons}] :
                            n \in 1..MaxDeleteRecords}
    /\ dindex = 1
    /\ dpc = "loop"
    /\ dcalls = << >>
    /\ returnData = << >>

CurrentItem == ditems[dindex]

\* The item id of a record: the itemId parameter (an expression over the
\* record) or String(inputItem.json[itemIdField] || '').
ItemIdOf(it) ==
    LET v == JsonField(it.json, "id") IN IF v.t = "text" THEN v.cs ELSE << >>

\* The ids of a record in batch mode: the trimmed, non-empty entries of the
\* batch field, else the single id field.
BatchIdsOf(it) ==
    LET b == JsonField(it.json, "ids")
        fromBatch == IF b.t = "array"
                     THEN SelectSeq([i \in 1..Len(b.v) |-> trim(b.v[i].cs)],
                                   LAMBDA cs : cs # << >>)
                     ELSE << >>
        single == trim(ItemIdOf(it))
    IN  IF fromBatch # << >> THEN fromBatch
        ELSE IF single # << >> THEN <<single>>
        ELSE << >>

\* Mutant of ConfirmationGate: the record passes whatever it holds.
ConfirmationGateOpen(it) == TRUE

\* if (confirmation.requireConfirmation) { if (!isConfirmed) throw ... }
ConfirmationGate(it) ==
    IF RequireConfirmation(dparams.confirmation)
    THEN checkDeletionConfirmation(dparams.idSource, it, dparams.confirmation)
    ELSE TRUE

\* { ...inputItem.json, memu: {...} }
WithMemu(json, memu) ==
    [t |-> "object",
     json |-> [k \in (DOMAIN json) \cup {"memu"} |-> IF k = "memu" THEN memu ELSE json[k]]]

\* returnData.push(out); the loop moves to the next record, or returns
\* [returnData] after the last.
Push(out) ==
    /\ returnData' = Append(returnData, out)
    /\ dindex' = dindex + 1
    /\ dpc' = IF dindex = Len(ditems) THEN "done" ELSE "loop"

\* The catch block of the loop body.
Catch(error) ==
    IF OptionOn(dparams.deletionOptions.continueOnError)
    THEN Push(handleMemUError(error, CurrentItem.json))
    ELSE dpc' = "failed" /\ UNCHANGED <<dindex, returnData>>


\* Single deletion: the record has no id or is not confirmed.
DeleteRejectsRecord ==
    /\ dpc = "loop"
    /\ dparams.idSource # "batch"
    /\ trim(ItemIdOf(CurrentItem)) = << >> \/ ~ConfirmationGate(CurrentItem)
    /\ Catch(IF trim(ItemIdOf(CurrentItem)) = << >>
             THEN ErrorVal("Item ID is required for memory item deletion")
             ELSE ErrorVal("Deletion not confirmed. Please provide proper confirmation."))
    /\ UNCHANGED <<batchVars, retryVars, utilVars, pollVars, dparams, ditems, dcalls>>

\* Single deletion, dry run: nothing is sent.
DeleteDryRun ==
    /\ dpc = "loop"
    /\ dparams.idSource # "batch"
    /\ trim(ItemIdOf(CurrentItem)) # << >>
    /\ ConfirmationGate(CurrentItem)
    /\ DryRun
    /\ Push(WithMemu(CurrentItem.json,
                     [operation |-> "delete", dry_run |-> TRUE,
                      item_id |-> trim(ItemIdOf(CurrentItem)), would_delete |-> TRUE]))
    /\ UNCHANGED <<batchVars, retryVars, utilVars, pollVars, dparams, ditems, dcalls>>

\* Single deletion: memUClient.deleteItem(deleteParams) is called.
DeleteCallsClient ==
    /\ dpc = "loop"
    /\ dparams.idSource # "batch"
    /\ trim(ItemIdOf(CurrentItem)) # << >>
    /\ ConfirmationGate(CurrentItem)
    /\ ~DryRun
    /\ dcalls' = Append(dcalls, [index |-> dindex, id |-> trim(ItemIdOf(CurrentItem))])
    /\ dpc' = "awaitDelete"
    /\ UNCHANGED <<batchVars, retryVars, utilVars, pollVars, dparams, ditems, dindex,
                   returnData>>

\* deleteItem resolved: success, a skipped not-found (the message includes
\* 'not found' and failOnNotFound is off), or a thrown failure.
DeleteResolves ==
    /\ dpc = "awaitDelete"
    /\ \E r \in DeleteResponses :
          IF "success" \in DOMAIN r.v /\ r.v.success THEN
              LET out == transformMemUResponse(r, "delete", CurrentItem.json)
                  memuData == out.json.memu
              IN  Push(WithMemu(CurrentItem.json,
                         [operation |-> memuData.operation,
                          success |-> memuData.success,
                          result |-> memuData.result,
                          deleted_item_id |-> ItemIdOf(CurrentItem),
                          deletion_confirmed |->
                              RequireConfirmation(dparams.confirmation)]))
          ELSE IF r.v.message \in {"Item not found", "not found"}
                    /\ ~OptionOn(dparams.deletionOptions.failOnNotFound) THEN
              Push(WithMemu(CurrentItem.json,
                     [operation |-> "delete", item_id |-> ItemIdOf(CurrentItem),
                      success |-> FALSE, skipped |-> TRUE, reason |-> "Item not found"]))
          ELSE Catch(ErrorVal("Failed to delete memory item: " \o r.v.message))
    /\ UNCHANGED <<batchVars, retryVars, utilVars, pollVars, dparams, ditems, dcalls>>

\* deleteItem rejected with the client's error.
DeleteRejects ==
    /\ dpc = "awaitDelete"
    /\ \E e \in DeleteClientErrors : Catch(e)
    /\ UNCHANGED <<batchVars, retryVars, utilVars, pollVars, dparams, ditems, dcalls>>
\* Batch deletion: the record has no ids or is not confirmed.
DeleteBatchRejectsRecord ==
    /\ dpc = "loop"
    /\ dparams.idSource = "batch"
    /\ BatchIdsOf(CurrentItem) = << >> \/ ~ConfirmationGate(CurrentItem)
    /\ Catch(IF BatchIdsOf(CurrentItem) = << >>
             THEN ErrorVal("No item IDs found for batch deletion")
             ELSE ErrorVal("Batch deletion not confirmed. Please provide proper confirmation."))
    /\ UNCHANGED <<batchVars, retryVars, utilVars, pollVars, dparams, ditems, dcalls>>

\* Batch deletion: batchProcessInputData is called with one item per id and
\* the options { maxConcurrency: batchProcessing.maxConcurrency || 5,
\* continueOnError: deletionOptions.continueOnError !== false }, batchProcessing
\* left at its default {}.
DeleteBatchCall ==
    /\ dpc = "loop"
    /\ dparams.idSource = "batch"
    /\ BatchIdsOf(CurrentItem) # << >>
    /\ ConfirmationGate(CurrentItem)
    /\ inputData' = [k \in 1..Len(BatchIdsOf(CurrentItem)) |->
                       [json |-> [id |-> TextVal(BatchIdsOf(CurrentItem)[k])]]]
    /\ options' =
          Destructure([preserveOrder |-> Undefined,
                       continueOnError |->
                           ObjVal(dparams.deletionOptions.continueOnError # ObjVal(FALSE)),
                       maxConcurrency |-> ObjVal(5)])
    /\ bpc' = "idle"
    /\ cursor' = 1
    /\ chunkEnd' = 0
    /\ proc' = [k \in 1..Len(BatchIdsOf(CurrentItem)) |-> IdleProc]
    /\ item' = [k \in 1..Len(BatchIdsOf(CurrentItem)) |-> NoItem]
    /\ results' = << >>
    /\ allRejection' = NoValue
    /\ returned' = << >>
    /\ rejectedWith' = NoValue
    /\ dpc' = "awaitBatch"
    /\ UNCHANGED <<retryVars, utilVars, pollVars, caller, npc, outputData, dparams, ditems,
                   dindex, dcalls, returnData>>

\* The deleteItem calls the batch processor issued for the record: with the
\* executor's all-at-once branch every id was mapped before the first await.
BatchCalls ==
    IF DryRun THEN << >>
    ELSE [p \in 1..N |-> [index |-> dindex, id |-> inputData[p].json.id.cs]]

\* The batch resolved: the summary of the record is pushed, with
\* batchResults.filter(r => r.success) and batchResults.filter(r => !r.success).
DeleteBatchSummary ==
    /\ dpc = "awaitBatch"
    /\ bpc = "returned"
    /\ Push(WithMemu(CurrentItem.json,
                     [operation |-> "batch_delete", dry_run |-> DryRun,
                      total_items |-> Len(BatchIdsOf(CurrentItem)),
                      successful_deletions |->
                          Len(SelectSeq(returned, LAMBDA r : r.success)),
                      failed_deletions |->
                          Len(SelectSeq(returned, LAMBDA r : ~r.success)),
                      results |-> returned]))
    /\ dcalls' = dcalls \o BatchCalls
    /\ UNCHANGED <<batchVars, retryVars, utilVars, pollVars, dparams, ditems>>

\* The batch rejected (its continueOnError is false): the catch block runs.
DeleteBatchThrows ==
    /\ dpc = "awaitBatch"
    /\ bpc = "rejected"
    /\ Catch(rejectedWith)
    /\ dcalls' = dcalls \o BatchCalls
    /\ UNCHANGED <<batchVars, retryVars, utilVars, pollVars, dparams, ditems>>

\* One execution of the Delete node.
InitDelete ==
    /\ inputData = << >>
    /\ caller = "delete"
    /\ options = Destructure([preserveOrder |-> Undefined, continueOnError |-> Undefined,
                              maxConcurrency |-> Undefined])
    /\ BatchIdle
    /\ RetryIdle
    /\ UtilIdle
    /\ PollIdle
    /\ DeleteInit

NextDelete ==
    \/ DeleteRejectsRecord
    \/ DeleteDryRun
    \/ DeleteCallsClient
    \/ DeleteResolves
    \/ DeleteRejects
    \/ DeleteBatchRejectsRecord
    \/ DeleteBatchCall
    \/ DeleteBatchSummary
    \/ DeleteBatchThrows
    \/ BatchStart
    \/ DispatchAwait
    \/ DispatchReturn
    \/ \E p \in Positions : ResumeSync(p)
    \/ \E p \in Positions : SettleReturn(p)
    \/ \E p \in Positions : SettleThrow(p)
    \/ GroupFulfilled
    \/ GroupRejected

SpecDelete == InitDelete /\ [][NextDelete]_vars

\* ================================================================== claims
\* Processor invocations that have started and not yet settled.
InFlight == Cardinality({p \in Positions : proc[p].st = "running"})

\* C1: with the options the callers pass (preserveOrder left at its default),
\* the number of processor invocations started and not yet settled never
\* exceeds maxConcurrency.
C1_InFlightBounded ==
    options.preserveOrder => InFlight <= options.maxConcurrency

\* C2: whenever the batch returns, the outcome array is as long as the input
\* and the outcome at position i has index i and the json of input record i.
C2_OutcomesMatchInput ==
    bpc = "returned" =>
        /\ Len(returned) = N
        /\ \A p \in Positions :
              /\ returned[p].index = p - 1
              /\ returned[p].originalData = inputData[p].json

\* The chunked branch returned after more than one chunk.
C2_Witness ==
    /\ bpc = "returned"
    /\ ~AllAtOnce
    /\ N > options.maxConcurrency

\* An outcome carries exactly one of the keys result and error, as its
\* success flag says.
ExactlyOne(o) ==
    IF o.success
    THEN "result" \in DOMAIN o /\ "error" \notin DOMAIN o
    ELSE "error" \in DOMAIN o /\ "result" \notin DOMAIN o

\* C3: every outcome the batch returns carries exactly one of result or error:
\* a success has a result and no error, a failure an error and no result.
C3_ResultXorError ==
    bpc = "returned" => \A p \in 1..Len(returned) : ExactlyOne(returned[p])

\* A returned array holding a success whose result is undefined and a failure
\* whose message is the empty string.
C3_Witness ==
    /\ bpc = "returned"
    /\ \E p \in 1..Len(returned) :
          returned[p].success /\ returned[p].result = Undefined
    /\ \E p \in 1..Len(returned) :
          ~returned[p].success /\ returned[p].error = ""

\* The outcome record p must get, given what its processor did.
ExpectedOutcome(p) ==
    IF proc[p].st = "fulfilled"
    THEN [success |-> TRUE, result |-> proc[p].val,
          originalData |-> inputData[p].json, index |-> p - 1]
    ELSE [success |-> FALSE,
          error |-> IF proc[p].val.t = "Error" THEN proc[p].val.message ELSE proc[p].val.s,
          originalData |-> inputData[p].json, index |-> p - 1]

\* C4: with continueOnError the batch never rejects; every record is processed
\* and its outcome depends on its own processor alone: a failure of record i
\* yields {success:false, error, originalData, index:i} at position i and the
\* other records get the outcome of their own processor call.
C4_ContinueOnError ==
    options.continueOnError =>
        /\ bpc # "rejected"
        /\ \A p \in Positions : item[p].st # "rejected"
        /\ bpc = "returned" =>
              /\ Len(returned) = N
              /\ \A p \in Positions :
                    /\ proc[p].st \in {"fulfilled", "rejected"}
                    /\ returned[p] = ExpectedOutcome(p)

\* Three records in chunks of two, the middle one failing and the others not.
C4_Witness ==
    /\ options.continueOnError
    /\ ~AllAtOnce
    /\ options.maxConcurrency = 2
    /\ N = 3
    /\ bpc = "returned"
    /\ ~returned[2].success
    /\ returned[1].success
    /\ returned[3].success

\* C5: without continueOnError, a batch in which a processor failed rejects
\* with a failed processor's own thrown value and returns no outcome array.
C5_FailFastRejects ==
    ~options.continueOnError =>
        /\ bpc = "returned" => \A p \in Positions : proc[p].st = "fulfilled"
        /\ bpc = "rejected" =>
              /\ returned = << >>
              /\ \E p \in Positions :
                    proc[p].st = "rejected" /\ rejectedWith = proc[p].val

\* The chunked branch rejected.
C5_Witness ==
    /\ ~options.continueOnError
    /\ ~AllAtOnce
    /\ bpc = "rejected"
    /\ rejectedWith = StrVal("boom")

\* Last position of the chunk of size maxConcurrency that position p lies in.
ChunkLast(p) == (((p - 1) \div options.maxConcurrency) + 1) * options.maxConcurrency

\* C6: without continueOnError, once the processor has failed for a record no
\* record beyond the failing record's chunk is attempted.
C6_NoStartAfterFailure ==
    ~options.continueOnError =>
        \A p \in Positions : \A q \in Positions :
            (proc[p].st = "rejected" /\ q > ChunkLast(p)) => proc[q].st = "idle"

\* C7: in the Memorize and Retrieve nodes, when the batch does not abort every
\* input record yields exactly one output item, in input order.
C7_OneItemPerRecord ==
    (caller = "node" /\ npc = "done") =>
        /\ Len(outputData) = N
        /\ \A p \in Positions :
              /\ outputData[p].json.id = inputData[p].json.id
              /\ ("error" \in DOMAIN outputData[p].json) = (proc[p].st = "rejected")

\* A node run that returned items for a failed and for a successful record.
C7_Witness ==
    /\ caller = "node"
    /\ npc = "done"
    /\ N >= 2
    /\ \E p \in Positions : proc[p].st = "rejected"
    /\ \E p \in Positions : proc[p].st = "fulfilled"

\* ---------------------------------------------------------- claims: withRetry
Settled == rpc \in {"returned", "thrown"}
Is5xx(error) == error.response /\ error.status >= 500 /\ error.status <= 599
Is4xx(error) == error.response /\ error.status >= 400 /\ error.status <= 499

\* C8: the operation is invoked at most maxRetries + 1 times and the invocation
\* always settles after at most that many attempts: it has returned or thrown,
\* or a step towards that is pending, and it never pauses after its last attempt.
C8_AttemptsBounded ==
    /\ invocations <= retries + 1
    /\ Len(calls) <= invocations
    /\ rpc = "sleeping" => invocations <= retries
    /\ Settled \/ ENABLED NextRetry
    /\ rpc = "returned" => outcome = StrVal("data")

\* Every attempt the default budget allows failed, and withRetry threw.
C8_Witness ==
    /\ rpc = "thrown"
    /\ retries = DefaultMaxRetries
    /\ invocations = retries + 1
    /\ Len(calls) = retries + 1

\* The error the cloud client raises for a service error (SERVICE_ERROR).
ServiceError == ErrorVal("MemU service error. Please try again later.")

\* C9: an operation failing on every attempt with an HTTP 5xx response is
\* attempted exactly maxRetries + 1 times with one sleep between consecutive
\* attempts, and withRetry then raises the service error, whatever the 5xx status.
C9_ServiceErrorAfterRetries ==
    (client = "cloud" /\ rpc = "thrown" /\ \A k \in 1..Len(calls) : Is5xx(calls[k])) =>
        /\ invocations = retries + 1
        /\ Len(sleeps) = retries
        /\ outcome = ServiceError

\* The operation was invoked exactly once because its first failure was a 4xx.
FirstFailureIs4xx == Len(calls) = 1 /\ Is4xx(calls[1])

\* C10 as stated: after an attempt failed with a 4xx response the invocation has
\* thrown without sleeping, the operation having been invoked exactly once.
C10_Original ==
    (calls # << >> /\ Is4xx(calls[Len(calls)])) =>
        /\ rpc = "thrown"
        /\ invocations = 1
        /\ sleeps = << >>

\* C10 (amended): an attempt failing with a 4xx response ends the invocation at
\* once: the error is raised (classified by the cloud client) with no further
\* attempt and no further sleep; the operation has been invoked once for that
\* attempt and once per earlier retryable failure, hence exactly once, with no
\* sleep at all, when the 4xx is the first failure.
C10_NoRetryOn4xx ==
    (calls # << >> /\ Is4xx(calls[Len(calls)])) =>
        /\ rpc = "thrown"
        /\ ~ENABLED NextRetry
        /\ outcome = Raise(calls[Len(calls)])
        /\ invocations = Len(calls)
        /\ Len(sleeps) = Len(calls) - 1
        /\ \A k \in 1..(Len(calls) - 1) : ~Is4xx(calls[k])
        /\ FirstFailureIs4xx => (invocations = 1 /\ sleeps = << >>)

\* A 429 on the first attempt, with the default budget of retries left unused.
C10_Witness ==
    /\ rpc = "thrown"
    /\ retries = DefaultMaxRetries
    /\ FirstFailureIs4xx
    /\ calls[1].status = 429
    /\ invocations = 1

\* ------------------------------------------------- claims: retry eligibility
\* The error code shared/utils.ts classifies a failure with.
ErrorCodeOf(error) == handleMemUError(error, NoData).json.error_code

\* A failure of a transient class: classified NETWORK_ERROR or SERVICE_ERROR,
\* every 5xx response counted as a service error.
TransientClass(error) ==
    ErrorCodeOf(error) \in {"NETWORK_ERROR", "SERVICE_ERROR"} \/ Is5xx(error)

\* C11: only failures classified NETWORK_ERROR or SERVICE_ERROR are retried: a
\* failure of any other class (UNEXPECTED_ERROR in particular) is the last
\* attempt of the invocation, which throws with no sleep after that failure.
C11_OnlyTransientRetried ==
    \A k \in 1..Len(calls) :
        ~TransientClass(calls[k]) =>
            /\ k = Len(calls)
            /\ rpc = "thrown"
            /\ Len(sleeps) = k - 1

\* error.response.status is defined.
HasStatus(error) == error.t = "AxiosError" /\ error.response

\* C12: the retry predicate (the clients' shouldRetry and shouldRetryError)
\* returns true if and only if the error has no HTTP response status or its
\* status s satisfies 500 <= s <= 599.
C12_RetryPredicate ==
    (ucall \in {"shouldRetry", "shouldRetryError"} /\ ~Nullish(uargs.error)) =>
        /\ uresult.st = "returned"
        /\ uresult.val =
              ((~HasStatus(uargs.error))
                  \/ (500 <= uargs.error.status /\ uargs.error.status <= 599))

\* shouldRetryError refused a response of status 600, just above the range.
C12_Witness ==
    /\ ucall = "shouldRetryError"
    /\ HasStatus(uargs.error)
    /\ uargs.error.status = 600
    /\ uresult = Returned(FALSE)

\* ------------------------------------------------------- claims: backoff delay
\* min(baseDelay * 2^k, maxDelay)
ExactDelay(k) == Min(delay * Pow2(k), maxDelay)

\* C13 as stated: the pause after zero-based attempt k equals exactly
\* min(baseDelay * 2^k, maxDelay), both in the delay the cloud client's
\* withRetry sleeps and in the value calculateBackoffDelay returns.
C13_Original ==
    client = "cloud" =>
        /\ \A k \in 1..Len(sleeps) : sleeps[k] = ExactDelay(k - 1)
        /\ backoff # NoValue => backoff.v = ExactDelay(attempt)

\* C13 (amended): the cloud client's withRetry pauses exactly
\* min(baseDelay * 2^k, maxDelay) after zero-based attempt k, for every
\* k < maxRetries; calculateBackoffDelay(k, baseDelay, maxDelay) returns a value
\* between min(baseDelay * 2^k, maxDelay) and min(1.1 * baseDelay * 2^k, maxDelay)
\* (it adds up to 10% of jitter before the cap); neither ever exceeds maxDelay.
C13_BackoffDelay ==
    client = "cloud" =>
        /\ Len(sleeps) <= retries
        /\ \A k \in 1..Len(sleeps) :
              sleeps[k] = ExactDelay(k - 1) /\ sleeps[k] <= maxDelay
        /\ backoff # NoValue =>
              /\ ExactDelay(attempt) <= backoff.v
              /\ backoff.v <= Min((11 * delay * Pow2(attempt)) \div 10, maxDelay)
              /\ backoff.v <= maxDelay

\* After two pauses of the cloud client, calculateBackoffDelay returned more
\* than the pause slept: the jitter shows.
C13_Witness ==
    /\ client = "cloud"
    /\ Len(sleeps) >= 2
    /\ backoff # NoValue
    /\ backoff.v > sleeps[Len(sleeps)]

\* ---------------------------------------------------- claims: client methods
\* The last failure of the call was a rate-limit response (HTTP 429).
LastFailureRateLimited ==
    /\ calls # << >>
    /\ calls[Len(calls)].response
    /\ calls[Len(calls)].status = 429

\* C14: with the retry budget the nodes leave at its default, a request that is
\* rate-limited (HTTP 429) on its first or second attempt is retried after a
\* backoff pause rather than failed, and a request is attempted at most 3 times.
C14_RateLimitRetried ==
    retries = DefaultMaxRetries =>
        /\ invocations <= 3
        /\ (LastFailureRateLimited /\ Len(calls) < 3) =>
              (rpc # "thrown" /\ Len(sleeps) = Len(calls))

\* A transient failure: no response at all, or a 5xx response.
Transient(error) == (~error.response) \/ Is5xx(error)

\* C15: every remote call of a client method is made inside withRetry: when
\* retries are allowed, a transient first failure of the method's call is
\* followed by a backoff pause and a retry, never surfaced at once.
C15_EveryCallInsideWithRetry ==
    (retries >= 1 /\ calls # << >> /\ Transient(calls[1])) => Len(sleeps) >= 1

\* ------------------------------------------------ claims: error classification
\* The error code the status of a response maps to.
StatusCode(status) ==
    CASE status = 401 -> "AUTH_FAILED"
      [] status = 403 -> "ACCESS_DENIED"
      [] status = 404 -> "NOT_FOUND"
      [] status = 422 -> "VALIDATION_ERROR"
      [] status = 429 -> "RATE_LIMITED"
      [] status >= 500 /\ status <= 599 -> "SERVICE_ERROR"
      [] OTHER -> "API_ERROR"

\* C16: handleMemUError gives an error with a response status the code its
\* status alone determines: 401 AUTH_FAILED, 403 ACCESS_DENIED, 404 NOT_FOUND,
\* 422 VALIDATION_ERROR, 429 RATE_LIMITED, every 500..599 SERVICE_ERROR, and any
\* other status the generic API error with the numeric status in its message.
C16_StatusToCode ==
    (ucall = "handleMemUError" /\ HasStatus(uargs.error)) =>
        /\ uresult.st = "returned"
        /\ uresult.val.json.error_code = StatusCode(uargs.error.status)
        /\ StatusCode(uargs.error.status) = "API_ERROR" =>
              uresult.val.json.message =
                  "API Error (" \o ToString(uargs.error.status) \o "): "
                      \o BodyMessage(uargs.error)

\* handleMemUError was called with a value that is neither null nor undefined
\* and carries no HTTP response.
ClassifiedWithoutStatus ==
    /\ ucall = "handleMemUError"
    /\ ~Nullish(uargs.error)
    /\ ~HasStatus(uargs.error)

FailureCode(e) ==
    IF e.response THEN StatusCode(e.status)
    ELSE IF e.request THEN "NETWORK_ERROR"
    ELSE "UNEXPECTED_ERROR"

\* C18: end to end, the error item a node emits for a record whose remote call
\* failed carries the error code that classifies the original failure (a 401
\* AUTH_FAILED, a 5xx SERVICE_ERROR, ...), after the client's error handling,
\* the batch executor and the node's error formatting.
C18_ErrorCodeEndToEnd ==
    (caller = "node" /\ npc = "done") =>
        \A p \in Positions : \A e \in NodeApiFailures :
            (proc[p].st = "rejected" /\ proc[p].val = handleApiError(e)) =>
                /\ p <= Len(outputData)
                /\ outputData[p].json.error_code = FailureCode(e)

\* Two errors that differ only in the credential-bearing text of the server's body.
SameButBody(e1, e2) ==
    /\ e1.t = "AxiosError"
    /\ e2.t = "AxiosError"
    /\ e1.dataMessage \in SecretTexts
    /\ e2.dataMessage \in SecretTexts
    /\ [e1 EXCEPT !.dataMessage = ""] = [e2 EXCEPT !.dataMessage = ""]

\* C19: no surfaced error message depends on secret-bearing text of the
\* server's error body: the message handleMemUError (or the client's
\* handleApiError) produced is the one it produces for every error that differs
\* only in that text.
C19_MessageIndependentOfSecrets ==
    /\ (ucall = "handleMemUError" /\ uresult.st = "returned") =>
          \A e2 \in HelperErrors :
              SameButBody(uargs.error, e2) =>
                  handleMemUError(e2, uargs.originalData).json.message
                      = uresult.val.json.message
    /\ ucall = "handleApiError" =>
          \A e2 \in HelperErrors :
              SameButBody(uargs.error, e2) =>
                  handleApiError(e2).message = uresult.val.message

\* C20: handleMemUError and transformMemUResponse never throw: every call
\* returns a value, also for a null or undefined error, a thrown non-object
\* value, and a null or undefined response of each operation kind.
C20_NeverThrows ==
    ucall \in {"handleMemUError", "transformMemUResponse"} => uresult.st = "returned"

\* C21 as stated: every field of originalData, a field named memu included,
\* is present in the output json with its original value.
C21_Original ==
    (ucall = "transformMemUResponse" /\ uresult.st = "returned") =>
        \A k \in DOMAIN uargs.originalData :
            /\ k \in DOMAIN uresult.val.json
            /\ uresult.val.json[k] = uargs.originalData[k]

\* C21 (amended): whenever transformMemUResponse returns, for every
\* operation kind, the output json has the fields of originalData and the
\* field memu; every field of originalData other than memu keeps its value,
\* and memu holds the new envelope of the operation, replacing a memu field
\* of originalData.
C21_MergeKeepsOtherFields ==
    (ucall = "transformMemUResponse" /\ uresult.st = "returned") =>
        /\ DOMAIN uresult.val.json = (DOMAIN uargs.originalData) \cup {"memu"}
        /\ \A k \in (DOMAIN uargs.originalData) \ {"memu"} :
               uresult.val.json[k] = uargs.originalData[k]
        /\ uresult.val.json.memu = memuEnvelope(uargs.response, uargs.operation)
        /\ uresult.val.json.memu.operation = uargs.operation

C21_Witness ==
    /\ ucall = "transformMemUResponse"
    /\ uresult.st = "returned"
    /\ "memu" \in DOMAIN uargs.originalData
    /\ "id" \in DOMAIN uargs.originalData
    /\ uresult.val.json.memu # uargs.originalData.memu
    /\ uresult.val.json.id = uargs.originalData.id

ChunkOf(p) == (p - 1) \div options.maxConcurrency
Started(p) == proc[p].st # "idle"

\* C28: in the chunked branch (preserveOrder false, maxConcurrency above 1)
\* the group being mapped or awaited is one of the consecutive chunks of
\* maxConcurrency records, no processor of a chunk has started unless every
\* processor of the chunks before it has settled, and the index handed to a
\* processor is the position of its record in the input.
C28_ChunksInSequence ==
    (~AllAtOnce /\ bpc # "idle") =>
        /\ bpc \in {"mapping", "awaiting"} =>
               /\ (GroupStart - 1) % options.maxConcurrency = 0
               /\ chunkEnd = Min(GroupStart + options.maxConcurrency - 1, N)
        /\ \A p, q \in Positions :
               (Started(q) /\ ChunkOf(p) < ChunkOf(q)) =>
                   /\ proc[p].st \in {"fulfilled", "rejected"}
                   /\ item[p].st \in {"fulfilled", "rejected"}
        /\ \A p \in Positions :
               /\ Started(p) => proc[p].index = p - 1
               /\ (Started(p) /\ bpc \in {"mapping", "awaiting"}) =>
                      ChunkOf(p) <= ChunkOf(GroupStart)

C28_Witness ==
    /\ ~AllAtOnce
    /\ N = 3
    /\ options.maxConcurrency = 2
    /\ proc[1].st = "fulfilled"
    /\ proc[2].st = "fulfilled"
    /\ Started(3)
    /\ proc[3].index = 2
NonTerminalSoFar == \A i \in 1..Len(observed) : observed[i] \notin {"SUCCESS", "FAILED"}
WaitOver == wresult # NoValue

\* C26: no poll is issued once the elapsed time has reached timeoutMs, the
\* wait always comes to an end, and when every poll succeeded with a status
\* other than SUCCESS and FAILED it ends by raising the timeout error, at an
\* elapsed time of at least timeoutMs.
C26_TimeoutEventuallyRaised ==
    /\ [](\A i \in 1..Len(pollTimes) : pollTimes[i] < timeoutMs)
    /\ <>(WaitOver \/ wpc = "done")
    /\ []((WaitOver /\ NonTerminalSoFar /\ wresult \notin NodeClientErrors) =>
             (wresult = TimeoutError /\ now >= timeoutMs))

C26_Witness ==
    /\ wresult = TimeoutError
    /\ Len(observed) >= 2
    /\ NonTerminalSoFar
    /\ timeoutMs > 0

\* C27: waitForTaskCompletion returns only a status that is SUCCESS or
\* FAILED, which is the first such status a poll observed; no poll follows
\* it; and between two consecutive polls the poll interval is slept once.
C27_ReturnsFirstTerminal ==
    /\ \A i \in 1..(Len(observed) - 1) : observed[i] \notin {"SUCCESS", "FAILED"}
    /\ (wresult # NoValue /\ wresult.t = "object") =>
           /\ observed # << >>
           /\ observed[Len(observed)] \in {"SUCCESS", "FAILED"}
           /\ wresult = TaskStatusResponse(observed[Len(observed)])
           /\ Len(pollTimes) = Len(observed)
    /\ (observed # << >> /\ observed[Len(observed)] \in {"SUCCESS", "FAILED"}) =>
           (wpc \in {"returned", "done"} /\ Len(pollTimes) = Len(observed))
    /\ \A i \in 1..Len(wsleeps) : wsleeps[i] = 5000
    /\ wpc = "polling" => Len(wsleeps) = Len(pollTimes) - 1
    /\ \A i \in 1..(Len(pollTimes) - 1) : pollTimes[i + 1] >= pollTimes[i] + 5000

C27_Witness ==
    /\ wpc = "returned"
    /\ Len(observed) = 3
    /\ observed[3] = "FAILED"
    /\ wresult = TaskStatusResponse("FAILED")
    /\ wsleeps = <<5000, 5000>>

\* C29: in the Memorize node with Wait for Completion on, a record whose task
\* ended FAILED is not reported with a success:true envelope.
C29_FailedTaskNotSuccess ==
    (wpc = "done" /\ observed # << >> /\ observed[Len(observed)] = "FAILED") =>
        ~(/\ mout.st = "fulfilled"
          /\ mout.val.success
          /\ OutcomeItems(mout.val) # << >>
          /\ OutcomeItems(mout.val)[1].json.memu.success)
\* Upper case of the letters the model uses.
UpperChar(c) ==
    CASE c = "d" -> "D" [] c = "e" -> "E" [] c = "l" -> "L" [] c = "t" -> "T"
      [] c = "y" -> "Y" [] c = "s" -> "S" [] c = "r" -> "R" [] c = "u" -> "U"
      [] OTHER -> c
EqualIgnoringCase(cs, word) ==
    /\ Len(cs) = Len(word)
    /\ \A i \in 1..Len(word) : cs[i] \in {word[i], UpperChar(word[i])}
\* cs is the word, in any case, between white space.
PaddedWord(cs, word) ==
    \E i \in 1..(Len(cs) + 1) :
        /\ i + Len(word) - 1 <= Len(cs)
        /\ EqualIgnoringCase(SubSeq(cs, i, i + Len(word) - 1), word)
        /\ \A k \in 1..Len(cs) :
               (k < i \/ k > i + Len(word) - 1) => cs[k] \in {" ", "\t", "\n"}
ConfirmWords == {<<"t", "r", "u", "e">>, <<"y", "e", "s">>, <<"d", "e", "l", "e", "t", "e">>}
ConfirmRequired ==
    "requireConfirmation" \in DOMAIN uargs.confirmation
        /\ uargs.confirmation.requireConfirmation
ManualConfirmed ==
    /\ "confirmationValue" \in DOMAIN uargs.confirmation
    /\ EqualIgnoringCase(uargs.confirmation.confirmationValue,
                         <<"d", "e", "l", "e", "t", "e">>)
CheckedField ==
    IF "confirmationField" \in DOMAIN uargs.confirmation
           /\ uargs.confirmation.confirmationField # ""
    THEN uargs.confirmation.confirmationField
    ELSE "confirm_delete"
CheckedValue ==
    IF CheckedField \in DOMAIN uargs.originalData
    THEN uargs.originalData[CheckedField]
    ELSE Undefined

\* C24 as stated: the record-field string confirms when it equals "true",
\* "yes" or "delete" ignoring case only; a padded string does not.
C24_Original ==
    ucall = "checkDeletionConfirmation" =>
        (uresult.val <=>
            \/ ~ConfirmRequired
            \/ ConfirmRequired /\ uargs.idSource = "manual" /\ ManualConfirmed
            \/ /\ ConfirmRequired /\ uargs.idSource # "manual"
               /\ \/ CheckedValue = BoolVal(TRUE)
                  \/ /\ CheckedValue.t = "text"
                     /\ \E w \in ConfirmWords : EqualIgnoringCase(CheckedValue.cs, w))

\* C24 (amended): checkDeletionConfirmation returns true exactly when
\* confirmation is not required; or, for a manual id, the confirmation value
\* equals "delete" ignoring case; or, for an id taken from the record, the
\* confirmation field holds the boolean true or a string equal to "true",
\* "yes" or "delete" ignoring case and white space around it.  Every other
\* value (such as "no", a number, a string with white space inside, an
\* absent field) gives false.
C24_ConfirmationRule ==
    ucall = "checkDeletionConfirmation" =>
        (uresult.val <=>
            \/ ~ConfirmRequired
            \/ ConfirmRequired /\ uargs.idSource = "manual" /\ ManualConfirmed
            \/ /\ ConfirmRequired /\ uargs.idSource # "manual"
               /\ \/ CheckedValue = BoolVal(TRUE)
                  \/ /\ CheckedValue.t = "text"
                     /\ \E w \in ConfirmWords : PaddedWord(CheckedValue.cs, w))

C24_Witness ==
    /\ ucall = "checkDeletionConfirmation"
    /\ ConfirmRequired
    /\ uargs.idSource = "field"
    /\ CheckedValue = TextVal(<<" ", "y", "e", "s", " ">>)
    /\ uresult.val = TRUE
ConfirmationNeeded == RequireConfirmation(dparams.confirmation)
RecordConfirmed(i) ==
    checkDeletionConfirmation(dparams.idSource, ditems[i], dparams.confirmation)
ErrorSurfaced(i) ==
    \/ i <= Len(returnData) /\ "error" \in DOMAIN returnData[i].json
    \/ i = dindex /\ dpc = "failed"

\* C23: whenever confirmation is required, a deleteItem call is issued for a
\* record, in single and in batch deletion, only if checkDeletionConfirmation
\* returned true for it; a record it returned false for gets an error instead
\* (an error item, or the node's failure when continueOnError is off).
C23_DeleteOnlyWhenConfirmed ==
    ConfirmationNeeded =>
        /\ \A k \in 1..Len(dcalls) : RecordConfirmed(dcalls[k].index)
        /\ dpc \in {"awaitDelete", "awaitBatch"} => RecordConfirmed(dindex)
        /\ \A i \in 1..Len(ditems) :
               (~RecordConfirmed(i) /\ (i < dindex \/ (i = dindex /\ dpc = "failed"))) =>
                   /\ ErrorSurfaced(i)
                   /\ \A k \in 1..Len(dcalls) : dcalls[k].index # i

C23_Witness ==
    /\ ConfirmationNeeded
    /\ dpc = "done"
    /\ Len(ditems) = 2
    /\ ~RecordConfirmed(1)
    /\ "error" \in DOMAIN returnData[1].json
    /\ RecordConfirmed(2)
    /\ \E k \in 1..Len(dcalls) : dcalls[k].index = 2

\* C25: Require Confirmation defaults to true: when the confirmation
\* parameter is {} the node still requires confirmation, so no deleteItem
\* call is issued for a record that holds no confirming value.
C25_DefaultRequiresConfirmation ==
    (DOMAIN dparams.confirmation = {}) =>
        \A k \in 1..Len(dcalls) :
            checkDeletionConfirmation(dparams.idSource, ditems[dcalls[k].index],
                                      [requireConfirmation |-> TRUE])

IsSummary(out) == "memu" \in DOMAIN out.json /\ out.json.memu.operation = "batch_delete"
\* The outcome of an id whose deletion happened: the dry run, or a remote
\* delete that answered success = true.
Deleted(r) == r.success /\ "success" \in DOMAIN r.result.v /\ r.result.v.success
CountOf(rs, deleted) ==
    Cardinality({k \in 1..Len(rs) : Deleted(rs[k]) = deleted})

\* C30: in a batch summary successful_deletions + failed_deletions =
\* total_items; an id is counted successful only if the run is a dry run or
\* its remote delete returned success = true; a delete that returned
\* success = false or threw is counted in failed_deletions.
C30_BatchSummaryCounts ==
    \A i \in 1..Len(returnData) :
        IsSummary(returnData[i]) =>
            LET m == returnData[i].json.memu
            IN  /\ m.successful_deletions + m.failed_deletions = m.total_items
                /\ m.successful_deletions = CountOf(m.results, TRUE)
                /\ m.failed_deletions = CountOf(m.results, FALSE)
====
